---------------------------- MODULE Spec2Model ----------------------------
(***************************************************************************)
(* A model of Code/backend/database_director.py: the DatabaseDirector, its *)
(* SQLite store (four tables), its two process-wide caches and the tasks   *)
(* it detaches on the asyncio event loop.                                  *)
(*                                                                         *)
(* Granularity.  A coroutine runs without interruption between two awaits. *)
(* Every await in the file is a store access, so a call is a sequence of   *)
(* steps of two kinds: a "db" step (one SELECT, or one write transaction at*)
(* its commit) and a "mem" step (the in-memory code that runs when the     *)
(* coroutine is resumed after that access).  Other tasks may run between   *)
(* any two steps.                                                          *)
(*                                                                         *)
(* Strings that the code takes apart (character names, character ids) are  *)
(* sequences of one-character strings; strings it only compares are TLA+   *)
(* strings.  Text columns holding JSON are sequences of tokens.            *)
(***************************************************************************)
EXTENDS Integers, Sequences, FiniteSets, TLC

\* --------------------------------------------------------------- bounds
\* datetime.now() is read at most MaxClock times in a run.
MaxClock == 3
\* At most MaxPending detached tasks are pending at any time.
MaxPending == 2

\* ------------------------------------------------------------ sentinels
\* SQL NULL in a stored row; Python None in an entity record.
NULL == "NULL"
None == "None"

\* ---------------------------------------------------------- sequences
RECURSIVE SeqMap(_, _)
SeqMap(Op(_), s) ==
  IF s = <<>> THEN <<>> ELSE <<Op(Head(s))>> \o SeqMap(Op, Tail(s))

Range(s) == {s[i] : i \in DOMAIN s}

IsPrefix(p, s) == Len(p) <= Len(s) /\ SubSeq(s, 1, Len(p)) = p

MaxOf(S) == IF S = {} THEN 0 ELSE CHOOSE x \in S : \A y \in S : y <= x

\* A function with key k added or overwritten, and with key k removed.
Put(f, k, v) == [x \in (DOMAIN f) \cup {k} |-> IF x = k THEN v ELSE f[x]]
Drop(f, k) == [x \in (DOMAIN f) \ {k} |-> f[x]]
EmptyMap == [x \in {} |-> x]

\* ------------------------------------------------- str methods and re
LowerLetters ==
  {"a","b","c","d","e","f","g","h","i","j","k","l","m",
   "n","o","p","q","r","s","t","u","v","w","x","y","z"}
DigitSeq == <<"0","1","2","3","4","5","6","7","8","9">>
Digits == Range(DigitSeq)

\* str.lower() on the letters names are drawn from.
LowerChar(c) ==
  CASE c = "R" -> "r" [] c = "A" -> "a" [] c = "B" -> "b" [] OTHER -> c
Lower(s) == SeqMap(LowerChar, s)

IsSpace(c) == c = " "

\* str.strip(): leading and trailing whitespace removed.
RECURSIVE LStripWs(_)
LStripWs(s) == IF s # <<>> /\ IsSpace(Head(s)) THEN LStripWs(Tail(s)) ELSE s
RECURSIVE RStripWs(_)
RStripWs(s) ==
  IF s # <<>> /\ IsSpace(s[Len(s)]) THEN RStripWs(SubSeq(s, 1, Len(s) - 1)) ELSE s
StripWs(s) == RStripWs(LStripWs(s))

\* re.sub(r'[^a-z0-9\s-]', '', s)
SlugCharOk(c) == c \in LowerLetters \cup Digits \cup {" ", "-"}
DropDisallowed(s) == SelectSeq(s, SlugCharOk)

\* re.sub(r'\s+', '-', s): every maximal run of whitespace becomes one hyphen.
RECURSIVE WsRunsToHyphen(_)
WsRunsToHyphen(s) ==
  IF s = <<>> THEN <<>>
  ELSE IF IsSpace(Head(s)) THEN <<"-">> \o WsRunsToHyphen(LStripWs(s))
  ELSE <<Head(s)>> \o WsRunsToHyphen(Tail(s))

\* re.sub(r'-+', '-', s)
RECURSIVE CollapseHyphens(_)
CollapseHyphens(s) ==
  IF Len(s) < 2 THEN s
  ELSE IF s[1] = "-" /\ s[2] = "-" THEN CollapseHyphens(Tail(s))
  ELSE <<Head(s)>> \o CollapseHyphens(Tail(s))

\* str.strip('-')
RECURSIVE LStripHyphen(_)
LStripHyphen(s) == IF s # <<>> /\ Head(s) = "-" THEN LStripHyphen(Tail(s)) ELSE s
RECURSIVE RStripHyphen(_)
RStripHyphen(s) ==
  IF s # <<>> /\ s[Len(s)] = "-" THEN RStripHyphen(SubSeq(s, 1, Len(s) - 1)) ELSE s
StripHyphens(s) == RStripHyphen(LStripHyphen(s))

\* No fallback: an empty slug stays empty.
DefaultSlug_Empty == <<>>

DefaultSlug == <<"c","h","a","r","a","c","t","e","r">>

\* _generate_character_id, lines 300-307: the slug of a name.
BaseId(name) ==
  LET b == StripHyphens(CollapseHyphens(WsRunsToHyphen(DropDisallowed(StripWs(Lower(name))))))
  IN IF b = <<>> THEN DefaultSlug ELSE b

\* int(): the value of a sequence of digits.
DigitVal(c) == (CHOOSE i \in DOMAIN DigitSeq : DigitSeq[i] = c) - 1
RECURSIVE ParseInt(_)
ParseInt(s) ==
  IF s = <<>> THEN 0 ELSE 10 * ParseInt(SubSeq(s, 1, Len(s) - 1)) + DigitVal(s[Len(s)])

\* f"{n:03d}": decimal digits, zero-padded to a width of at least three.
RECURSIVE DecDigits(_)
DecDigits(n) ==
  IF n < 10 THEN <<DigitSeq[n + 1]>> ELSE DecDigits(n \div 10) \o <<DigitSeq[(n % 10) + 1]>>
Fmt03(n) ==
  LET d == DecDigits(n)
  IN IF Len(d) >= 3 THEN d ELSE IF Len(d) = 2 THEN <<"0">> \o d ELSE <<"0", "0">> \o d

\* SQL: id LIKE 'base-%' (LIKE ignores ASCII case; a slug holds no wildcard).
LikePrefix(base, id) == IsPrefix(Lower(base \o <<"-">>), Lower(id))

\* A faulty pattern: the anchor on the slug is lost, so that any id the LIKE
\* returned and that ends in three digits counts.
SuffixMatch_AnyTail(base, id) ==
  IF /\ Len(id) >= Len(base) + 4
     /\ IsPrefix(base \o <<"-">>, id)
     /\ \A i \in (Len(id) - 2)..Len(id) : id[i] \in Digits
  THEN ParseInt(SubSeq(id, Len(id) - 2, Len(id)))
  ELSE -1

\* re.compile(rf"^{re.escape(base_id)}-(\d{{3}})$").match(id): the number
\* captured, or -1 when the id does not match.
SuffixMatch(base, id) ==
  IF /\ Len(id) = Len(base) + 4
     /\ IsPrefix(base \o <<"-">>, id)
     /\ \A i \in (Len(base) + 2)..(Len(base) + 4) : id[i] \in Digits
  THEN ParseInt(SubSeq(id, Len(base) + 2, Len(base) + 4))
  ELSE -1

\* _generate_character_id, lines 309-330, given the ids the store holds.
GenerateCharacterId(name, ids) ==
  LET base == BaseId(name)
      rows == {id \in ids : LikePrefix(base, id)}
      nums == {SuffixMatch(base, id) : id \in rows} \ {-1}
      highest_num == MaxOf(nums \cup {0})
      next_num == highest_num + 1
  IN base \o <<"-">> \o Fmt03(next_num)

\* ------------------------------------------------------------- json
\* json.dumps of a list of strings, as tokens: [ "a" , "b" ]
RECURSIVE JsonItems(_)
JsonItems(s) ==
  IF s = <<>> THEN <<>>
  ELSE IF Len(s) = 1 THEN <<s[1]>>
  ELSE <<s[1], ",">> \o JsonItems(Tail(s))
JsonDumpsList(s) == <<"[">> \o JsonItems(s) \o <<"]">>

\* json.loads of such a text.
RECURSIVE JsonParseItems(_)
JsonParseItems(t) ==
  IF t = <<>> THEN <<>>
  ELSE IF Head(t) = "," THEN JsonParseItems(Tail(t))
  ELSE <<Head(t)>> \o JsonParseItems(Tail(t))
JsonLoadsList(t) == JsonParseItems(SubSeq(t, 2, Len(t) - 1))

\* json.dumps / json.loads of an audio_tokens value: None or an opaque value.
JsonDumpsValue(v) == IF v = None THEN <<"null">> ELSE <<"\"", v, "\"">>
JsonLoadsValue(t) == IF t = <<"null">> THEN None ELSE t[2]

\* A text column is falsy in Python when it is NULL or empty: both are <<>>.
NoText == <<>>


\* ------------------------------------------------------- row codecs
\* Python's `x or ""` on a text column.
TextOrEmpty(x) == IF x = NULL THEN "" ELSE x

\* _row_to_character
RowToCharacter(row) ==
  [id |-> row.id,
   name |-> row.name,
   voice |-> TextOrEmpty(row.voice),
   system_prompt |-> TextOrEmpty(row.system_prompt),
   image_url |-> TextOrEmpty(row.image_url),
   images |-> IF row.images # NoText THEN JsonLoadsList(row.images) ELSE <<>>,
   is_active |-> (row.is_active # 0),
   last_message |-> TextOrEmpty(row.last_message),
   created_at |-> row.created_at,
   updated_at |-> row.updated_at]

\* _row_to_voice (a stored text that is not JSON is passed through as it is;
\* this code never writes one, and the model holds none).
RowToVoice(row) ==
  [voice |-> row.voice,
   method |-> TextOrEmpty(row.method),
   audio_path |-> TextOrEmpty(row.audio_path),
   text_path |-> TextOrEmpty(row.text_path),
   speaker_desc |-> TextOrEmpty(row.speaker_desc),
   scene_prompt |-> TextOrEmpty(row.scene_prompt),
   audio_tokens |-> IF row.audio_tokens # NoText THEN JsonLoadsValue(row.audio_tokens) ELSE None,
   id |-> IF row.id = NULL THEN None ELSE row.id,
   created_at |-> row.created_at,
   updated_at |-> row.updated_at]

\* The value the voice cache holds for a voice: lines 226-229, 626-629, 770-773.
VoiceCacheEntry(voice) == [config |-> voice, audio_tokens |-> voice.audio_tokens]

\* --------------------------------------------------------------- state
VARIABLES
  store_characters,    \* table characters: id -> row
  store_voices,        \* table voices: voice -> row
  store_conversations, \* table conversations: conversation_id -> row
  store_messages,      \* table messages: message_id -> row
  character_cache,     \* self._character_cache: id -> Character
  voice_cache,         \* self._voice_cache: voice -> {config, audio_tokens}
  cache_loaded,        \* self._cache_loaded
  clock,               \* the number of datetime.now() readings so far
  next_uuid,           \* the number of uuid.uuid4() values drawn so far
  calls,               \* the caller's coroutines: slot -> call
  bg                   \* the tasks detached with asyncio.create_task, pending

vars ==
  <<store_characters, store_voices, store_conversations, store_messages,
    character_cache, voice_cache, cache_loaded, clock, next_uuid, calls, bg>>

stores == <<store_characters, store_voices, store_conversations, store_messages>>
caches == <<character_cache, voice_cache, cache_loaded>>

Slots == {1, 2}

\* uuid.uuid4(): the values drawn, in order; taken to be distinct.
UuidNames == <<"u1", "u2", "u3", "u4", "u5", "u6", "u7", "u8", "u9">>
UuidSeq == SubSeq(UuidNames, 1, MaxClock)
Uuid4 == UuidSeq[next_uuid + 1]

NoRet == [kind |-> "none", code |-> 0, val |-> None]
Ok(v) == [kind |-> "ok", code |-> 200, val |-> v]
Err(code) == [kind |-> "err", code |-> code, val |-> None]

\* What a call sees of the store and the caches when it starts.
Snapshot ==
  [sc |-> store_characters, sv |-> store_voices, sconv |-> store_conversations,
   sm |-> store_messages, cc |-> character_cache, vc |-> voice_cache,
   loaded |-> cache_loaded]

IdleCall ==
  [op |-> "idle", pc |-> "done", arg |-> EmptyMap, loc |-> EmptyMap,
   ret |-> NoRet, pre |-> EmptyMap, ilv |-> FALSE, rd |-> FALSE]

Running(s) == calls[s].pc # "done"

\* The readings of datetime.now() still owed to coroutines under way.
OwedReads ==
  Cardinality({s \in Slots : Running(s) /\ calls[s].rd})
    + Cardinality({i \in DOMAIN bg : bg[i].rd})
CanReadClock == clock + OwedReads <= MaxClock

\* Slot s takes a step to call c.  The field ilv of a call records that another
\* task has taken a step since the call started: while it is FALSE the call has
\* run, and its result stands, with nothing interleaved.
StepTo(s, c) ==
  calls' = [x \in Slots |->
              IF x = s THEN c
              ELSE IF calls[x].op # "idle" THEN [calls[x] EXCEPT !.ilv = TRUE]
              ELSE calls[x]]

\* A detached task takes a step.
BgInterleaves ==
  calls' = [x \in Slots |->
              IF calls[x].op # "idle" THEN [calls[x] EXCEPT !.ilv = TRUE] ELSE calls[x]]

NewCall(op, pc, arg, loc, rd) ==
  [op |-> op, pc |-> pc, arg |-> arg, loc |-> loc, ret |-> NoRet,
   pre |-> Snapshot, ilv |-> FALSE, rd |-> rd]

At(s, op, pc) == calls[s].op = op /\ calls[s].pc = pc
Goto(s, pc, loc) == StepTo(s, [calls[s] EXCEPT !.pc = pc, !.loc = loc])
\* The coroutine reads datetime.now() in this step.
GotoNow(s, pc, loc) == StepTo(s, [calls[s] EXCEPT !.pc = pc, !.loc = loc, !.rd = FALSE])
Return(s, ret) == StepTo(s, [calls[s] EXCEPT !.pc = "done", !.ret = ret, !.rd = FALSE])

Has(data, f) == f \in DOMAIN data

\* ------------------------------------------------------------ init_database
\* init_database, _load_caches: lines 200-232.
Call_init_database(s) ==
  /\ ~Running(s)
  /\ StepTo(s, NewCall("init_database", "ld_chars", EmptyMap, EmptyMap, FALSE))
  /\ UNCHANGED <<stores, caches, clock, next_uuid, bg>>

\* SELECT * FROM characters
Load_chars(s) ==
  /\ At(s, "init_database", "ld_chars")
  /\ Goto(s, "ld_cfill", [rows |-> store_characters])
  /\ UNCHANGED <<stores, caches, clock, next_uuid, bg>>

\* for row in rows: self._character_cache[character.id] = character
Load_cfill(s) ==
  /\ At(s, "init_database", "ld_cfill")
  /\ LET rows == calls[s].loc.rows
     IN character_cache' =
          [id \in (DOMAIN character_cache) \cup (DOMAIN rows) |->
             IF id \in DOMAIN rows THEN RowToCharacter(rows[id]) ELSE character_cache[id]]
  /\ Goto(s, "ld_voices", EmptyMap)
  /\ UNCHANGED <<stores, voice_cache, cache_loaded, clock, next_uuid, bg>>

\* SELECT * FROM voices
Load_voices(s) ==
  /\ At(s, "init_database", "ld_voices")
  /\ Goto(s, "ld_vfill", [rows |-> store_voices])
  /\ UNCHANGED <<stores, caches, clock, next_uuid, bg>>

\* for row in rows: self._voice_cache[voice.voice] = {...}; _cache_loaded = True
Load_vfill(s) ==
  /\ At(s, "init_database", "ld_vfill")
  /\ LET rows == calls[s].loc.rows
     IN voice_cache' =
          [v \in (DOMAIN voice_cache) \cup (DOMAIN rows) |->
             IF v \in DOMAIN rows THEN VoiceCacheEntry(RowToVoice(rows[v])) ELSE voice_cache[v]]
  /\ cache_loaded' = TRUE
  /\ Return(s, Ok(None))
  /\ UNCHANGED <<stores, character_cache, clock, next_uuid, bg>>

\* ------------------------------------------------------ create_character
\* The row INSERTed at lines 433-440; last_message takes the column default.
NewCharacterRow(id, data, now) ==
  [id |-> id, name |-> data.name, voice |-> data.voice,
   system_prompt |-> data.system_prompt, image_url |-> data.image_url,
   images |-> JsonDumpsList(data.images),
   is_active |-> IF data.is_active THEN 1 ELSE 0,
   last_message |-> NULL, created_at |-> now, updated_at |-> now]

\* A faulty create_character: the Character is built with last_message unset.
NewCharacter_NullLastMessage(id, data, now) ==
  [id |-> id, name |-> data.name, voice |-> data.voice,
   system_prompt |-> data.system_prompt, image_url |-> data.image_url,
   images |-> data.images, is_active |-> data.is_active,
   last_message |-> None, created_at |-> now, updated_at |-> now]

\* The Character built at lines 443-454.
NewCharacter(id, data, now) ==
  [id |-> id, name |-> data.name, voice |-> data.voice,
   system_prompt |-> data.system_prompt, image_url |-> data.image_url,
   images |-> data.images, is_active |-> data.is_active,
   last_message |-> "", created_at |-> now, updated_at |-> now]

Call_create_character(s, data) ==
  /\ ~Running(s)
  /\ CanReadClock
  /\ StepTo(s, NewCall("create_character", "cc_genid", data, EmptyMap, TRUE))
  /\ UNCHANGED <<stores, caches, clock, next_uuid, bg>>

\* A faulty create_character: the cache takes the character before the INSERT.
Cc_genid_CacheFirst(s) ==
  /\ At(s, "create_character", "cc_genid")
  /\ LET id == GenerateCharacterId(calls[s].arg.name, DOMAIN store_characters)
     IN /\ GotoNow(s, "cc_insert", [character_id |-> id, now |-> clock])
        /\ character_cache' = Put(character_cache, id, NewCharacter(id, calls[s].arg, clock))
  /\ clock' = clock + 1
  /\ UNCHANGED <<stores, voice_cache, cache_loaded, next_uuid, bg>>

\* _generate_character_id's SELECT id FROM characters WHERE id LIKE ?, then
\* now = datetime.now() (line 430).
Cc_genid(s) ==
  /\ At(s, "create_character", "cc_genid")
  /\ GotoNow(s, "cc_insert",
       [character_id |-> GenerateCharacterId(calls[s].arg.name, DOMAIN store_characters),
        now |-> clock])
  /\ clock' = clock + 1
  /\ UNCHANGED <<stores, caches, next_uuid, bg>>

\* A faulty create_character: the INSERT replaces a row that has the id.
Cc_insert_OrReplace(s) ==
  /\ At(s, "create_character", "cc_insert")
  /\ LET id == calls[s].loc.character_id
     IN /\ store_characters' =
             Put(store_characters, id, NewCharacterRow(id, calls[s].arg, calls[s].loc.now))
        /\ Goto(s, "cc_cache", calls[s].loc)
  /\ UNCHANGED <<store_voices, store_conversations, store_messages, caches, clock, next_uuid, bg>>

\* A faulty create_character: the record is cached before the INSERT is known
\* to have gone through, and stays cached when the primary key rejects it.
Cc_insert_CachedOnFailure(s) ==
  /\ At(s, "create_character", "cc_insert")
  /\ LET id == calls[s].loc.character_id
     IN /\ character_cache' =
             Put(character_cache, id, NewCharacter(id, calls[s].arg, calls[s].loc.now))
        /\ IF id \in DOMAIN store_characters
           THEN /\ Return(s, Err(500))
                /\ UNCHANGED store_characters
           ELSE /\ store_characters' =
                     Put(store_characters, id, NewCharacterRow(id, calls[s].arg, calls[s].loc.now))
                /\ Goto(s, "cc_cache", calls[s].loc)
  /\ UNCHANGED <<store_voices, store_conversations, store_messages, voice_cache,
                 cache_loaded, clock, next_uuid, bg>>

\* INSERT INTO characters ...; commit.  The primary key rejects an id the table
\* holds, and line 460 turns that into a 500.
Cc_insert(s) ==
  /\ At(s, "create_character", "cc_insert")
  /\ LET id == calls[s].loc.character_id
     IN IF id \in DOMAIN store_characters
        THEN /\ Return(s, Err(500))
             /\ UNCHANGED store_characters
        ELSE /\ store_characters' =
                  Put(store_characters, id, NewCharacterRow(id, calls[s].arg, calls[s].loc.now))
             /\ Goto(s, "cc_cache", calls[s].loc)
  /\ UNCHANGED <<store_voices, store_conversations, store_messages, caches, clock, next_uuid, bg>>

\* self._character_cache[character_id] = character; return character
Cc_cache(s) ==
  /\ At(s, "create_character", "cc_cache")
  /\ LET character == NewCharacter(calls[s].loc.character_id, calls[s].arg, calls[s].loc.now)
     IN /\ character_cache' = Put(character_cache, character.id, character)
        /\ Return(s, Ok(character))
  /\ UNCHANGED <<stores, voice_cache, cache_loaded, clock, next_uuid, bg>>

\* ------------------------------------------------------ update_character
\* get_character's first line (381): served from the cache.
CharacterCacheHit(id) == cache_loaded /\ id \in DOMAIN character_cache

\* A faulty UPDATE: every column is written, a field not given with the
\* default of the model.
ApplyCharacterUpdate_AllColumns(row, data, now) ==
  [row EXCEPT
     !.name = IF Has(data, "name") THEN data.name ELSE @,
     !.voice = IF Has(data, "voice") THEN data.voice ELSE "",
     !.system_prompt = IF Has(data, "system_prompt") THEN data.system_prompt ELSE "",
     !.image_url = IF Has(data, "image_url") THEN data.image_url ELSE "",
     !.images = IF Has(data, "images") THEN JsonDumpsList(data.images) ELSE JsonDumpsList(<<>>),
     !.is_active = IF Has(data, "is_active") THEN (IF data.is_active THEN 1 ELSE 0) ELSE 1,
     !.last_message = IF Has(data, "last_message") THEN data.last_message ELSE NULL,
     !.updated_at = now]

\* UPDATE characters SET <the fields given>, updated_at = ? (lines 472-498).
ApplyCharacterUpdate(row, data, now) ==
  [row EXCEPT
     !.name = IF Has(data, "name") THEN data.name ELSE @,
     !.voice = IF Has(data, "voice") THEN data.voice ELSE @,
     !.system_prompt = IF Has(data, "system_prompt") THEN data.system_prompt ELSE @,
     !.image_url = IF Has(data, "image_url") THEN data.image_url ELSE @,
     !.images = IF Has(data, "images") THEN JsonDumpsList(data.images) ELSE @,
     !.is_active = IF Has(data, "is_active") THEN (IF data.is_active THEN 1 ELSE 0) ELSE @,
     !.last_message = IF Has(data, "last_message") THEN data.last_message ELSE @,
     !.updated_at = now]

\* Lines 469-499, once get_character has returned: the 400, or on to the UPDATE.
Uc_prepare(s, c) ==
  IF DOMAIN c.arg.data = {}
  THEN /\ StepTo(s, [c EXCEPT !.pc = "done", !.ret = Err(400), !.rd = FALSE])
       /\ UNCHANGED clock
  ELSE /\ StepTo(s, [c EXCEPT !.pc = "uc_update", !.loc = [now |-> clock], !.rd = FALSE])
       /\ clock' = clock + 1

Call_update_character(s, id, data) ==
  /\ ~Running(s)
  /\ CanReadClock
  /\ LET c == NewCall("update_character", "uc_get", [id |-> id, data |-> data], EmptyMap, TRUE)
     IN IF CharacterCacheHit(id)
        THEN Uc_prepare(s, c)
        ELSE StepTo(s, c) /\ UNCHANGED clock
  /\ UNCHANGED <<stores, caches, next_uuid, bg>>

\* get_character's SELECT * FROM characters WHERE id = ? (lines 385-396).
Uc_get(s) ==
  /\ At(s, "update_character", "uc_get")
  /\ IF calls[s].arg.id \in DOMAIN store_characters
     THEN Uc_prepare(s, calls[s])
     ELSE Return(s, Err(404)) /\ UNCHANGED clock
  /\ UNCHANGED <<stores, caches, next_uuid, bg>>

\* UPDATE characters SET ... WHERE id = ?; commit (lines 501-506).
Uc_update(s) ==
  /\ At(s, "update_character", "uc_update")
  /\ LET id == calls[s].arg.id
     IN store_characters' =
          IF id \in DOMAIN store_characters
          THEN [store_characters EXCEPT
                  ![id] = ApplyCharacterUpdate(@, calls[s].arg.data, calls[s].loc.now)]
          ELSE store_characters
  /\ Goto(s, "uc_readback", calls[s].loc)
  /\ UNCHANGED <<store_voices, store_conversations, store_messages, caches, clock, next_uuid, bg>>

\* _get_character_from_db (line 508).
Uc_readback(s) ==
  /\ At(s, "update_character", "uc_readback")
  /\ IF calls[s].arg.id \in DOMAIN store_characters
     THEN Goto(s, "uc_cache", [row |-> store_characters[calls[s].arg.id]])
     ELSE Return(s, Err(404))
  /\ UNCHANGED <<stores, caches, clock, next_uuid, bg>>

\* self._character_cache[character_id] = character; return character
Uc_cache(s) ==
  /\ At(s, "update_character", "uc_cache")
  /\ LET character == RowToCharacter(calls[s].loc.row)
     IN /\ character_cache' = Put(character_cache, calls[s].arg.id, character)
        /\ Return(s, Ok(character))
  /\ UNCHANGED <<stores, voice_cache, cache_loaded, clock, next_uuid, bg>>

\* ------------------------------------------------------ delete_character
Call_delete_character(s, id) ==
  /\ ~Running(s)
  /\ StepTo(s, NewCall("delete_character",
                       IF CharacterCacheHit(id) THEN "dc_delete" ELSE "dc_get",
                       [id |-> id], EmptyMap, FALSE))
  /\ UNCHANGED <<stores, caches, clock, next_uuid, bg>>

Dc_get(s) ==
  /\ At(s, "delete_character", "dc_get")
  /\ IF calls[s].arg.id \in DOMAIN store_characters
     THEN Goto(s, "dc_delete", EmptyMap)
     ELSE Return(s, Err(404))
  /\ UNCHANGED <<stores, caches, clock, next_uuid, bg>>

\* DELETE FROM characters WHERE id = ?; commit
Dc_delete(s) ==
  /\ At(s, "delete_character", "dc_delete")
  /\ store_characters' =
       IF calls[s].arg.id \in DOMAIN store_characters
       THEN Drop(store_characters, calls[s].arg.id) ELSE store_characters
  /\ Goto(s, "dc_cache", EmptyMap)
  /\ UNCHANGED <<store_voices, store_conversations, store_messages, caches, clock, next_uuid, bg>>

\* if character_id in self._character_cache: del ...; return True
Dc_cache(s) ==
  /\ At(s, "delete_character", "dc_cache")
  /\ character_cache' =
       IF calls[s].arg.id \in DOMAIN character_cache
       THEN Drop(character_cache, calls[s].arg.id) ELSE character_cache
  /\ Return(s, Ok(TRUE))
  /\ UNCHANGED <<stores, voice_cache, cache_loaded, clock, next_uuid, bg>>

\* ----------------------------------------------------------- get_voice
\* str.strip() on the voice names the callers pass.
StripStr(x) ==
  CASE x = " aria " -> "aria" [] x = " nova " -> "nova" [] x = "  " -> "" [] OTHER -> x

\* get_voice's first line (608): served from the cache.
VoiceCacheHit(voice_name) == cache_loaded /\ voice_name \in DOMAIN voice_cache

\* ---------------------------------------------------------- create_voice
\* The row INSERTed at lines 654-660; audio_tokens takes the column default.
NewVoiceRow(voice_name, data, voice_id, now) ==
  [voice |-> voice_name, method |-> data.method, audio_path |-> data.audio_path,
   text_path |-> data.text_path, speaker_desc |-> data.speaker_desc,
   scene_prompt |-> data.scene_prompt, audio_tokens |-> NoText, id |-> voice_id,
   created_at |-> now, updated_at |-> now]

\* The Voice built at lines 663-674.
NewVoice(voice_name, data, voice_id, now) ==
  [voice |-> voice_name, method |-> data.method, audio_path |-> data.audio_path,
   text_path |-> data.text_path, speaker_desc |-> data.speaker_desc,
   scene_prompt |-> data.scene_prompt, audio_tokens |-> None, id |-> voice_id,
   created_at |-> now, updated_at |-> now]

\* Lines 643-651.  The two HTTPException(400) are raised inside the try whose
\* only handler is `except Exception`, which re-raises them as a 500.
Call_create_voice(s, data) ==
  /\ ~Running(s)
  /\ CanReadClock
  /\ LET voice_name == StripStr(data.voice)
         c == NewCall("create_voice", "cv_insert", data, EmptyMap, TRUE)
     IN IF voice_name = "" \/ VoiceCacheHit(voice_name)
        THEN /\ StepTo(s, [c EXCEPT !.pc = "done", !.ret = Err(500), !.rd = FALSE])
             /\ UNCHANGED <<clock, next_uuid>>
        ELSE /\ StepTo(s, [c EXCEPT !.rd = FALSE,
                             !.loc = [voice_name |-> voice_name, now |-> clock,
                                      voice_id |-> Uuid4]])
             /\ clock' = clock + 1
             /\ next_uuid' = next_uuid + 1
  /\ UNCHANGED <<stores, caches, bg>>

\* INSERT INTO voices ...; commit
Cv_insert(s) ==
  /\ At(s, "create_voice", "cv_insert")
  /\ LET l == calls[s].loc
     IN IF l.voice_name \in DOMAIN store_voices
        THEN /\ Return(s, Err(500))
             /\ UNCHANGED store_voices
        ELSE /\ store_voices' =
                  Put(store_voices, l.voice_name,
                      NewVoiceRow(l.voice_name, calls[s].arg, l.voice_id, l.now))
             /\ Goto(s, "cv_cache", l)
  /\ UNCHANGED <<store_characters, store_conversations, store_messages, caches, clock, next_uuid, bg>>

\* self._voice_cache[voice_name] = {"config": voice, "audio_tokens": None}
Cv_cache(s) ==
  /\ At(s, "create_voice", "cv_cache")
  /\ LET l == calls[s].loc
         voice == NewVoice(l.voice_name, calls[s].arg, l.voice_id, l.now)
     IN /\ voice_cache' = Put(voice_cache, l.voice_name, [config |-> voice, audio_tokens |-> None])
        /\ Return(s, Ok(voice))
  /\ UNCHANGED <<stores, character_cache, cache_loaded, clock, next_uuid, bg>>

\* ---------------------------------------------------------- update_voice
\* new_voice as line 693 computes it: None when the field is not given.
NewVoiceName(data) == IF Has(data, "new_voice") THEN StripStr(data.new_voice) ELSE None

\* `new_voice and new_voice != voice_name` (lines 697-698, 734, 747, 755, 767, 775).
IsRename(voice_name, data) ==
  NewVoiceName(data) \notin {None, "", voice_name}

\* Lines 704-721: a field other than the name is given.
OtherVoiceFields(data) ==
  (DOMAIN data) \cap {"method", "audio_path", "text_path", "speaker_desc",
                      "scene_prompt", "audio_tokens"} # {}

\* UPDATE voices SET <the fields given>, updated_at = ? (lines 697-728, 742-745).
ApplyVoiceUpdate(row, voice_name, data, now) ==
  [row EXCEPT
     !.voice = IF IsRename(voice_name, data) THEN NewVoiceName(data) ELSE @,
     !.method = IF Has(data, "method") THEN data.method ELSE @,
     !.audio_path = IF Has(data, "audio_path") THEN data.audio_path ELSE @,
     !.text_path = IF Has(data, "text_path") THEN data.text_path ELSE @,
     !.speaker_desc = IF Has(data, "speaker_desc") THEN data.speaker_desc ELSE @,
     !.scene_prompt = IF Has(data, "scene_prompt") THEN data.scene_prompt ELSE @,
     !.audio_tokens = IF Has(data, "audio_tokens") THEN JsonDumpsValue(data.audio_tokens) ELSE @,
     !.updated_at = now]

\* UPDATE characters SET voice = ?, updated_at = ? WHERE voice = ?
\* (lines 748-751; lines 798-801 with the empty string).
StoreVoiceCascade(sc, voice_name, new_voice, now) ==
  [id \in DOMAIN sc |->
     IF sc[id].voice = voice_name
     THEN [sc[id] EXCEPT !.voice = new_voice, !.updated_at = now]
     ELSE sc[id]]

\* for character in self._character_cache.values(): if character.voice ==
\* voice_name: ... (lines 775-779 and 807-811), run only when _cache_loaded.
CacheVoiceCascade(cc, voice_name, new_voice, now) ==
  IF cache_loaded
  THEN [id \in DOMAIN cc |->
          IF cc[id].voice = voice_name
          THEN [cc[id] EXCEPT !.voice = new_voice, !.updated_at = now]
          ELSE cc[id]]
  ELSE cc

\* Lines 693-729, once get_voice has returned: a 400, or on to the connection.
Uv_prepare(s, c) ==
  LET data == c.arg.data
      voice_name == c.arg.voice_name
  IN IF \/ (Has(data, "new_voice") /\ NewVoiceName(data) = "")
        \/ (~IsRename(voice_name, data) /\ ~OtherVoiceFields(data))
     THEN /\ StepTo(s, [c EXCEPT !.pc = "done", !.ret = Err(400), !.rd = FALSE])
          /\ UNCHANGED clock
     ELSE /\ StepTo(s, [c EXCEPT
                          !.pc = IF IsRename(voice_name, data) THEN "uv_check" ELSE "uv_commit",
                          !.loc = [now |-> clock], !.rd = FALSE])
          /\ clock' = clock + 1

Call_update_voice(s, voice_name, data) ==
  /\ ~Running(s)
  /\ CanReadClock
  /\ LET c == NewCall("update_voice", "uv_get",
                      [voice_name |-> voice_name, data |-> data], EmptyMap, TRUE)
     IN IF VoiceCacheHit(voice_name)
        THEN Uv_prepare(s, c)
        ELSE StepTo(s, c) /\ UNCHANGED clock
  /\ UNCHANGED <<stores, caches, next_uuid, bg>>

\* get_voice's SELECT * FROM voices WHERE voice = ? (lines 613-622).
Uv_get(s) ==
  /\ At(s, "update_voice", "uv_get")
  /\ IF calls[s].arg.voice_name \in DOMAIN store_voices
     THEN Goto(s, "uv_fill", [row |-> store_voices[calls[s].arg.voice_name]])
     ELSE Return(s, Err(404))
  /\ UNCHANGED <<stores, caches, clock, next_uuid, bg>>

\* get_voice's self._voice_cache[voice_name] = {...} (lines 624-629), then
\* update_voice goes on.
Uv_fill(s) ==
  /\ At(s, "update_voice", "uv_fill")
  /\ voice_cache' = Put(voice_cache, calls[s].arg.voice_name,
                        VoiceCacheEntry(RowToVoice(calls[s].loc.row)))
  /\ Uv_prepare(s, calls[s])
  /\ UNCHANGED <<stores, character_cache, cache_loaded, next_uuid, bg>>

\* SELECT voice FROM voices WHERE voice = ? (lines 734-740).
Uv_check(s) ==
  /\ At(s, "update_voice", "uv_check")
  /\ IF NewVoiceName(calls[s].arg.data) \in DOMAIN store_voices
     THEN Return(s, Err(400))
     ELSE Goto(s, "uv_commit", calls[s].loc)
  /\ UNCHANGED <<stores, caches, clock, next_uuid, bg>>

\* UPDATE voices ...; UPDATE characters ... (on a rename); commit (lines 742-753).
\* Renaming onto a name the table holds breaks the primary key: a 500.
Uv_commit(s) ==
  /\ At(s, "update_voice", "uv_commit")
  /\ LET voice_name == calls[s].arg.voice_name
         data == calls[s].arg.data
         now == calls[s].loc.now
         rename == IsRename(voice_name, data)
     IN IF /\ rename
           /\ voice_name \in DOMAIN store_voices
           /\ NewVoiceName(data) \in DOMAIN store_voices
        THEN /\ Return(s, Err(500))
             /\ UNCHANGED <<store_voices, store_characters>>
        ELSE /\ store_voices' =
                  IF voice_name \in DOMAIN store_voices
                  THEN LET row == ApplyVoiceUpdate(store_voices[voice_name], voice_name, data, now)
                       IN Put(Drop(store_voices, voice_name), row.voice, row)
                  ELSE store_voices
             /\ store_characters' =
                  IF rename
                  THEN StoreVoiceCascade(store_characters, voice_name, NewVoiceName(data), now)
                  ELSE store_characters
             /\ Goto(s, "uv_readback", calls[s].loc)
  /\ UNCHANGED <<store_conversations, store_messages, caches, clock, next_uuid, bg>>

\* SELECT * FROM voices WHERE voice = ? on the same connection (lines 755-763).
Uv_readback(s) ==
  /\ At(s, "update_voice", "uv_readback")
  /\ LET voice_name == calls[s].arg.voice_name
         data == calls[s].arg.data
         updated_voice_name == IF IsRename(voice_name, data) THEN NewVoiceName(data) ELSE voice_name
     IN IF updated_voice_name \in DOMAIN store_voices
        THEN Goto(s, "uv_cache", [now |-> calls[s].loc.now, row |-> store_voices[updated_voice_name]])
        ELSE Return(s, Err(404))
  /\ UNCHANGED <<stores, caches, clock, next_uuid, bg>>

\* Lines 765-782: the old key leaves the voice cache, the new entry enters it,
\* and the cached characters follow the rename.
Uv_cache(s) ==
  /\ At(s, "update_voice", "uv_cache")
  /\ LET voice_name == calls[s].arg.voice_name
         data == calls[s].arg.data
         voice == RowToVoice(calls[s].loc.row)
         rename == IsRename(voice_name, data)
     IN /\ voice_cache' =
             Put(IF rename THEN Drop(voice_cache, voice_name) ELSE voice_cache,
                 voice.voice, VoiceCacheEntry(voice))
        /\ character_cache' =
             IF rename
             THEN CacheVoiceCascade(character_cache, voice_name, NewVoiceName(data), calls[s].loc.now)
             ELSE character_cache
        /\ Return(s, Ok(voice))
  /\ UNCHANGED <<stores, cache_loaded, clock, next_uuid, bg>>

\* ---------------------------------------------------------- delete_voice
Call_delete_voice(s, voice_name) ==
  /\ ~Running(s)
  /\ CanReadClock
  /\ StepTo(s, NewCall("delete_voice",
                       IF VoiceCacheHit(voice_name) THEN "dv_commit" ELSE "dv_get",
                       [voice_name |-> voice_name], EmptyMap, TRUE))
  /\ UNCHANGED <<stores, caches, clock, next_uuid, bg>>

Dv_get(s) ==
  /\ At(s, "delete_voice", "dv_get")
  /\ IF calls[s].arg.voice_name \in DOMAIN store_voices
     THEN Goto(s, "dv_fill", [row |-> store_voices[calls[s].arg.voice_name]])
     ELSE Return(s, Err(404))
  /\ UNCHANGED <<stores, caches, clock, next_uuid, bg>>

Dv_fill(s) ==
  /\ At(s, "delete_voice", "dv_fill")
  /\ voice_cache' = Put(voice_cache, calls[s].arg.voice_name,
                        VoiceCacheEntry(RowToVoice(calls[s].loc.row)))
  /\ Goto(s, "dv_commit", EmptyMap)
  /\ UNCHANGED <<stores, character_cache, cache_loaded, clock, next_uuid, bg>>

\* now = datetime.now(); DELETE FROM voices ...; UPDATE characters SET voice = ''
\* ...; commit (lines 795-802).
Dv_commit(s) ==
  /\ At(s, "delete_voice", "dv_commit")
  /\ LET voice_name == calls[s].arg.voice_name
     IN /\ store_voices' = Drop(store_voices, voice_name)
        /\ store_characters' = StoreVoiceCascade(store_characters, voice_name, "", clock)
  /\ GotoNow(s, "dv_cache", [now |-> clock])
  /\ clock' = clock + 1
  /\ UNCHANGED <<store_conversations, store_messages, caches, next_uuid, bg>>

\* Lines 804-814.
Dv_cache(s) ==
  /\ At(s, "delete_voice", "dv_cache")
  /\ LET voice_name == calls[s].arg.voice_name
     IN /\ voice_cache' = Drop(voice_cache, voice_name)
        /\ character_cache' = CacheVoiceCascade(character_cache, voice_name, "", calls[s].loc.now)
  /\ Return(s, Ok(TRUE))
  /\ UNCHANGED <<stores, cache_loaded, clock, next_uuid, bg>>

\* ------------------------------------------------- audio-token hot path
RemoveAt(q, i) == SubSeq(q, 1, i - 1) \o SubSeq(q, i + 1, Len(q))

NewTask(op, pc, arg) == [op |-> op, pc |-> pc, arg |-> arg, rd |-> TRUE, now |-> 0]

\* get_cached_audio_tokens (lines 822-826): no store access.
GetCachedAudioTokens(voice_name) ==
  IF voice_name \in DOMAIN voice_cache THEN voice_cache[voice_name].audio_tokens ELSE None

\* update_cached_audio_tokens (lines 828-832): no await, so one step.
Call_update_cached_audio_tokens(s, voice_name, audio_tokens) ==
  /\ ~Running(s)
  /\ LET c == NewCall("update_cached_audio_tokens", "done",
                      [voice_name |-> voice_name, audio_tokens |-> audio_tokens],
                      EmptyMap, FALSE)
     IN /\ StepTo(s, [c EXCEPT !.ret = Ok(None)])
        /\ IF voice_name \in DOMAIN voice_cache
           THEN /\ CanReadClock
                /\ Len(bg) < MaxPending
                /\ voice_cache' = [voice_cache EXCEPT ![voice_name].audio_tokens = audio_tokens]
                /\ bg' = Append(bg, NewTask("persist_audio_tokens", "pa_commit",
                                            [voice_name |-> voice_name,
                                             audio_tokens |-> audio_tokens]))
           ELSE UNCHANGED <<voice_cache, bg>>
  /\ UNCHANGED <<stores, character_cache, cache_loaded, clock, next_uuid>>

\* _persist_audio_tokens (lines 834-845): UPDATE voices SET audio_tokens = ?,
\* updated_at = ? WHERE voice = ?; commit
Pa_commit(i) ==
  /\ i \in DOMAIN bg
  /\ bg[i].op = "persist_audio_tokens"
  /\ LET voice_name == bg[i].arg.voice_name
     IN store_voices' =
          IF voice_name \in DOMAIN store_voices
          THEN [store_voices EXCEPT
                  ![voice_name].audio_tokens = JsonDumpsValue(bg[i].arg.audio_tokens),
                  ![voice_name].updated_at = clock]
          ELSE store_voices
  /\ clock' = clock + 1
  /\ bg' = RemoveAt(bg, i)
  /\ BgInterleaves
  /\ UNCHANGED <<store_characters, store_conversations, store_messages, caches, next_uuid>>

\* clear_voice_cache (lines 847-850)
Call_clear_voice_cache(s) ==
  /\ ~Running(s)
  /\ StepTo(s, [NewCall("clear_voice_cache", "done", EmptyMap, EmptyMap, FALSE)
                  EXCEPT !.ret = Ok(None)])
  /\ voice_cache' = EmptyMap
  /\ UNCHANGED <<stores, character_cache, cache_loaded, clock, next_uuid, bg>>

\* ------------------------------------------- conversations and messages
\* json.dumps / json.loads of active_characters: a list of objects, of which
\* the model keeps the key "id".
RECURSIVE JsonObjItems(_)
JsonObjItems(s) ==
  IF s = <<>> THEN <<>>
  ELSE LET o == <<"{", "id", ":", s[1].id, "}">>
       IN IF Len(s) = 1 THEN o ELSE o \o <<",">> \o JsonObjItems(Tail(s))
JsonDumpsObjs(s) == <<"[">> \o JsonObjItems(s) \o <<"]">>

RECURSIVE JsonParseObjs(_)
JsonParseObjs(t) ==
  IF t = <<>> THEN <<>>
  ELSE IF Head(t) = "," THEN JsonParseObjs(Tail(t))
  ELSE <<[id |-> t[4]]>> \o JsonParseObjs(SubSeq(t, 6, Len(t)))
JsonLoadsObjs(t) == JsonParseObjs(SubSeq(t, 2, Len(t) - 1))

NullToNone(x) == IF x = NULL THEN None ELSE x
NoneToNull(x) == IF x = None THEN NULL ELSE x

\* _row_to_conversation
RowToConversation(row) ==
  [conversation_id |-> row.conversation_id,
   title |-> NullToNone(row.title),
   active_characters |->
     IF row.active_characters # NoText THEN JsonLoadsObjs(row.active_characters) ELSE <<>>,
   created_at |-> row.created_at,
   updated_at |-> row.updated_at]

\* _row_to_message
RowToMessage(row) ==
  [message_id |-> row.message_id,
   conversation_id |-> row.conversation_id,
   role |-> row.role,
   name |-> NullToNone(row.name),
   content |-> row.content,
   character_id |-> NullToNone(row.character_id),
   created_at |-> row.created_at,
   updated_at |-> row.updated_at]

\* The row INSERTed at lines 1137-1143, 1175-1181.
NewMessageRow(message_id, data, now) ==
  [message_id |-> message_id, conversation_id |-> data.conversation_id,
   role |-> data.role, name |-> NoneToNull(data.name), content |-> data.content,
   character_id |-> NoneToNull(data.character_id),
   created_at |-> now, updated_at |-> now]

\* _generate_conversation_title() with no first message (line 878); the
\* minute it names is left out.
GeneratedTitle == "Conversation"

\* The row INSERTed at lines 931-936.
NewConversationRow(conversation_id, data, now) ==
  [conversation_id |-> conversation_id,
   title |-> IF data.title \in {None, ""} THEN GeneratedTitle ELSE data.title,
   active_characters |-> JsonDumpsObjs(data.active_characters),
   created_at |-> now, updated_at |-> now]

\* A faulty create_message_background: the row is inserted before the return.
Call_create_message_background_Eager(s, data) ==
  /\ ~Running(s)
  /\ CanReadClock
  /\ Len(bg) < MaxPending
  /\ StepTo(s, [NewCall("create_message_background", "done", data, EmptyMap, FALSE)
                  EXCEPT !.ret = Ok(Uuid4)])
  /\ next_uuid' = next_uuid + 1
  /\ store_messages' = Put(store_messages, Uuid4, NewMessageRow(Uuid4, data, clock))
  /\ bg' = Append(bg, NewTask("create_message_async", "cm_start",
                              [message_id |-> Uuid4, data |-> data]))
  /\ UNCHANGED <<store_characters, store_voices, store_conversations, caches, clock>>

\* create_message_background (lines 1164-1168): no await, so one step.
Call_create_message_background(s, data) ==
  /\ ~Running(s)
  /\ CanReadClock
  /\ Len(bg) < MaxPending
  /\ StepTo(s, [NewCall("create_message_background", "done", data, EmptyMap, FALSE)
                  EXCEPT !.ret = Ok(Uuid4)])
  /\ next_uuid' = next_uuid + 1
  /\ bg' = Append(bg, NewTask("create_message_async", "cm_start",
                              [message_id |-> Uuid4, data |-> data]))
  /\ UNCHANGED <<stores, caches, clock>>

\* _create_message_async up to its first await: now = datetime.now()
Cm_start(i) ==
  /\ i \in DOMAIN bg
  /\ bg[i].op = "create_message_async" /\ bg[i].pc = "cm_start"
  /\ bg' = [bg EXCEPT ![i].pc = "cm_insert", ![i].now = clock, ![i].rd = FALSE]
  /\ clock' = clock + 1
  /\ BgInterleaves
  /\ UNCHANGED <<stores, caches, next_uuid>>

\* A faulty _create_message_async: the task ends without its INSERT.
Cm_insert_Dropped(i) ==
  /\ i \in DOMAIN bg
  /\ bg[i].op = "create_message_async" /\ bg[i].pc = "cm_insert"
  /\ bg' = RemoveAt(bg, i)
  /\ BgInterleaves
  /\ UNCHANGED <<stores, caches, clock, next_uuid>>

\* INSERT INTO messages ...; commit.  The connection never turns foreign keys
\* on, so the row goes in whether or not its conversation exists.  A message_id
\* the table holds breaks the primary key; line 1184 logs that and no more.
Cm_insert(i) ==
  /\ i \in DOMAIN bg
  /\ bg[i].op = "create_message_async" /\ bg[i].pc = "cm_insert"
  /\ store_messages' =
       IF bg[i].arg.message_id \in DOMAIN store_messages
       THEN store_messages
       ELSE Put(store_messages, bg[i].arg.message_id,
                NewMessageRow(bg[i].arg.message_id, bg[i].arg.data, bg[i].now))
  /\ bg' = RemoveAt(bg, i)
  /\ BgInterleaves
  /\ UNCHANGED <<store_characters, store_voices, store_conversations, caches, clock, next_uuid>>

\* create_conversation_background (lines 918-922): no await, so one step.
Call_create_conversation_background(s, data) ==
  /\ ~Running(s)
  /\ CanReadClock
  /\ Len(bg) < MaxPending
  /\ StepTo(s, [NewCall("create_conversation_background", "done", data, EmptyMap, FALSE)
                  EXCEPT !.ret = Ok(Uuid4)])
  /\ next_uuid' = next_uuid + 1
  /\ bg' = Append(bg, NewTask("create_conversation_async", "cvb_start",
                              [conversation_id |-> Uuid4, data |-> data]))
  /\ UNCHANGED <<stores, caches, clock>>

\* _create_conversation_async up to its first await (lines 927-928).
Cvb_start(i) ==
  /\ i \in DOMAIN bg
  /\ bg[i].op = "create_conversation_async" /\ bg[i].pc = "cvb_start"
  /\ bg' = [bg EXCEPT ![i].pc = "cvb_insert", ![i].now = clock, ![i].rd = FALSE]
  /\ clock' = clock + 1
  /\ BgInterleaves
  /\ UNCHANGED <<stores, caches, next_uuid>>

\* A faulty _create_conversation_async: the row goes in under an identifier
\* of the task's own.
Cvb_insert_OwnId(i) ==
  /\ i \in DOMAIN bg
  /\ bg[i].op = "create_conversation_async" /\ bg[i].pc = "cvb_insert"
  /\ store_conversations' =
       Put(store_conversations, "own", NewConversationRow("own", bg[i].arg.data, bg[i].now))
  /\ bg' = RemoveAt(bg, i)
  /\ BgInterleaves
  /\ UNCHANGED <<store_characters, store_voices, store_messages, caches, clock, next_uuid>>

\* INSERT INTO conversations ...; commit (lines 930-937).
Cvb_insert(i) ==
  /\ i \in DOMAIN bg
  /\ bg[i].op = "create_conversation_async" /\ bg[i].pc = "cvb_insert"
  /\ store_conversations' =
       IF bg[i].arg.conversation_id \in DOMAIN store_conversations
       THEN store_conversations
       ELSE Put(store_conversations, bg[i].arg.conversation_id,
                NewConversationRow(bg[i].arg.conversation_id, bg[i].arg.data, bg[i].now))
  /\ bg' = RemoveAt(bg, i)
  /\ BgInterleaves
  /\ UNCHANGED <<store_characters, store_voices, store_messages, caches, clock, next_uuid>>

\* create_message (lines 1130-1162): message_id and now, then the INSERT.
Call_create_message(s, data) ==
  /\ ~Running(s)
  /\ CanReadClock
  /\ StepTo(s, NewCall("create_message", "cmsg_insert", data,
                       [message_id |-> Uuid4, now |-> clock], FALSE))
  /\ next_uuid' = next_uuid + 1
  /\ clock' = clock + 1
  /\ UNCHANGED <<stores, caches, bg>>

\* create_message that also records the message as last_message of every
\* cached character.
Cmsg_insert_TouchesCache(s) ==
  /\ At(s, "create_message", "cmsg_insert")
  /\ LET l == calls[s].loc
         row == NewMessageRow(l.message_id, calls[s].arg, l.now)
     IN IF l.message_id \in DOMAIN store_messages
        THEN Return(s, Err(500)) /\ UNCHANGED <<store_messages, character_cache>>
        ELSE /\ store_messages' = Put(store_messages, l.message_id, row)
             /\ character_cache' = [id \in DOMAIN character_cache |->
                                      [character_cache[id] EXCEPT !.last_message = row.content]]
             /\ Return(s, Ok(RowToMessage(row)))
  /\ UNCHANGED <<store_characters, store_voices, store_conversations, voice_cache,
                 cache_loaded, clock, next_uuid, bg>>

Cmsg_insert(s) ==
  /\ At(s, "create_message", "cmsg_insert")
  /\ LET l == calls[s].loc
         row == NewMessageRow(l.message_id, calls[s].arg, l.now)
     IN IF l.message_id \in DOMAIN store_messages
        THEN Return(s, Err(500)) /\ UNCHANGED store_messages
        ELSE /\ store_messages' = Put(store_messages, l.message_id, row)
             /\ Return(s, Ok(RowToMessage(row)))
  /\ UNCHANGED <<store_characters, store_voices, store_conversations, caches, clock, next_uuid, bg>>

\* delete_message (lines 1331-1343)
Call_delete_message(s, message_id) ==
  /\ ~Running(s)
  /\ StepTo(s, NewCall("delete_message", "dm_delete", [message_id |-> message_id],
                       EmptyMap, FALSE))
  /\ UNCHANGED <<stores, caches, clock, next_uuid, bg>>

Dm_delete(s) ==
  /\ At(s, "delete_message", "dm_delete")
  /\ store_messages' = Drop(store_messages, calls[s].arg.message_id)
  /\ Return(s, Ok(TRUE))
  /\ UNCHANGED <<store_characters, store_voices, store_conversations, caches, clock, next_uuid, bg>>

\* SELECT * FROM messages WHERE conversation_id = ? ORDER BY created_at ASC: the
\* orders SQLite may return the rows in (rows of equal created_at in any order).
MessagesOf(sm, conversation_id) == {m \in DOMAIN sm : sm[m].conversation_id = conversation_id}

OrderedByCreatedAt(sm, ids) ==
  {q \in [1..Cardinality(ids) -> ids] :
     /\ \A i, j \in DOMAIN q : i # j => q[i] # q[j]
     /\ \A i, j \in DOMAIN q : i < j => sm[q[i]].created_at <= sm[q[j]].created_at}

\* LIMIT ? OFFSET ? (lines 1254-1256); limit is None when not given.
NoLimit == -1
LimitOffset(q, limit, offset) ==
  IF limit = NoLimit THEN q
  ELSE SubSeq(q, offset + 1, IF offset + limit < Len(q) THEN offset + limit ELSE Len(q))

\* get_messages (lines 1243-1269)
Call_get_messages(s, conversation_id, limit, offset) ==
  /\ ~Running(s)
  /\ StepTo(s, NewCall("get_messages", "gm_select",
                       [conversation_id |-> conversation_id, limit |-> limit, offset |-> offset],
                       EmptyMap, FALSE))
  /\ UNCHANGED <<stores, caches, clock, next_uuid, bg>>

Gm_select(s) ==
  /\ At(s, "get_messages", "gm_select")
  /\ \E q \in OrderedByCreatedAt(store_messages,
                                 MessagesOf(store_messages, calls[s].arg.conversation_id)) :
       LET rows == LimitOffset(q, calls[s].arg.limit, calls[s].arg.offset)
       IN Return(s, Ok([i \in DOMAIN rows |-> RowToMessage(store_messages[rows[i]])]))
  /\ UNCHANGED <<stores, caches, clock, next_uuid, bg>>

\* get_conversation (lines 942-962)
Call_get_conversation(s, conversation_id) ==
  /\ ~Running(s)
  /\ StepTo(s, NewCall("get_conversation", "gc_select",
                       [conversation_id |-> conversation_id], EmptyMap, FALSE))
  /\ UNCHANGED <<stores, caches, clock, next_uuid, bg>>

Gc_select(s) ==
  /\ At(s, "get_conversation", "gc_select")
  /\ IF calls[s].arg.conversation_id \in DOMAIN store_conversations
     THEN Return(s, Ok(RowToConversation(store_conversations[calls[s].arg.conversation_id])))
     ELSE Return(s, Err(404))
  /\ UNCHANGED <<stores, caches, clock, next_uuid, bg>>

\* ------------------------------------------------ the database at start
\* database.db outlives the process: the director is constructed over whatever
\* earlier runs of this code left in it.
Robot == <<"R","o","b","o","t">>
RobotArm == <<"R","o","b","o","t"," ","A","r","m">>
Bangs == <<"!","!","!">>
Robot001 == <<"r","o","b","o","t","-","0","0","1">>
Robot002 == <<"r","o","b","o","t","-","0","0","2">>

SeedCharacterRow(id, voice) ==
  NewCharacterRow(id, [name |-> Robot, voice |-> voice, system_prompt |-> "",
                       image_url |-> "", images |-> <<"a.png", "b.png">>,
                       is_active |-> FALSE], 0)
SeedVoiceRow(voice, voice_id) ==
  NewVoiceRow(voice, [method |-> "", audio_path |-> "", text_path |-> "",
                      speaker_desc |-> "", scene_prompt |-> ""], voice_id, 0)

NoCharacters == EmptyMap
SeedCharacters ==
  [id \in {Robot001, Robot002} |->
     SeedCharacterRow(id, IF id = Robot001 THEN "aria" ELSE "nova")]
NoVoices == EmptyMap
SeedVoices ==
  [v \in {"aria", "nova"} |-> SeedVoiceRow(v, IF v = "aria" THEN "v1" ELSE "v2")]

\* The state after DatabaseDirector.__init__ (lines 195-198), over database db.
InitOver(characters, voices) ==
  /\ store_characters = characters
  /\ store_voices = voices
  /\ store_conversations = EmptyMap
  /\ store_messages = EmptyMap
  /\ character_cache = EmptyMap
  /\ voice_cache = EmptyMap
  /\ cache_loaded = FALSE
  /\ clock = 1
  /\ next_uuid = 0
  /\ calls = [s \in Slots |-> IdleCall]
  /\ bg = <<>>

Init ==
  \/ InitOver(NoCharacters, NoVoices)
  \/ InitOver(SeedCharacters, SeedVoices)

\* ------------------------------------------------------ specification
\* The caller issues character and voice operations one after the other; the
\* tasks it detaches run whenever the event loop picks them.
CharacterCreates ==
  {[name |-> Robot, voice |-> "aria", system_prompt |-> "", image_url |-> "",
    images |-> <<"a.png">>, is_active |-> TRUE]}
CharacterUpdates ==
  {EmptyMap, [name |-> RobotArm, voice |-> "nova", images |-> <<>>, is_active |-> TRUE]}
VoiceCreates ==
  {[voice |-> v, method |-> "m", audio_path |-> "", text_path |-> "",
    speaker_desc |-> "", scene_prompt |-> ""] : v \in {" aria ", "  "}}
VoiceUpdates ==
  {EmptyMap, [new_voice |-> "zed"], [new_voice |-> " nova "],
   [method |-> "m", audio_tokens |-> "t2"]}

CallStep(s) ==
  \/ Call_init_database(s)
  \/ \E data \in CharacterCreates : Call_create_character(s, data)
  \/ \E data \in CharacterUpdates : Call_update_character(s, Robot001, data)
  \/ Call_delete_character(s, Robot001)
  \/ \E data \in VoiceCreates : Call_create_voice(s, data)
  \/ \E data \in VoiceUpdates : Call_update_voice(s, "aria", data)
  \/ Call_delete_voice(s, "aria")
  \/ Call_update_cached_audio_tokens(s, "aria", "t1")
  \/ Call_clear_voice_cache(s)

CoroutineStep(s) ==
  \/ Load_chars(s) \/ Load_cfill(s) \/ Load_voices(s) \/ Load_vfill(s)
  \/ Cc_genid(s) \/ Cc_insert(s) \/ Cc_cache(s)
  \/ Uc_get(s) \/ Uc_update(s) \/ Uc_readback(s) \/ Uc_cache(s)
  \/ Dc_get(s) \/ Dc_delete(s) \/ Dc_cache(s)
  \/ Cv_insert(s) \/ Cv_cache(s)
  \/ Uv_get(s) \/ Uv_fill(s) \/ Uv_check(s) \/ Uv_commit(s) \/ Uv_readback(s) \/ Uv_cache(s)
  \/ Dv_get(s) \/ Dv_fill(s) \/ Dv_commit(s) \/ Dv_cache(s)

Next ==
  \/ CallStep(1)
  \/ CoroutineStep(1)
  \/ \E i \in DOMAIN bg : Pa_commit(i)

Spec == Init /\ [][Next]_vars

\* ------------------------------------------------------------- claims
SyncMutations ==
  {"create_character", "update_character", "delete_character",
   "create_voice", "update_voice", "delete_voice"}

\* Call s has returned a value and no other task has taken a step since it
\* started: the state is the one the caller sees as the call returns.
ReturnedOk(s) ==
  calls[s].pc = "done" /\ calls[s].ret.kind = "ok" /\ ~calls[s].ilv

\* The cache holds the character and a fresh store read gives the same fields.
SameCharacter(id) ==
  /\ id \in DOMAIN character_cache
  /\ id \in DOMAIN store_characters
  /\ character_cache[id] = RowToCharacter(store_characters[id])

SameVoice(v) ==
  /\ v \in DOMAIN voice_cache
  /\ v \in DOMAIN store_voices
  /\ voice_cache[v] = VoiceCacheEntry(RowToVoice(store_voices[v]))

Converged(c) ==
  CASE c.op = "create_character" -> SameCharacter(c.ret.val.id)
    [] c.op = "update_character" -> SameCharacter(c.arg.id)
    [] c.op = "delete_character" ->
         c.arg.id \notin DOMAIN character_cache /\ c.arg.id \notin DOMAIN store_characters
    [] c.op = "create_voice" -> SameVoice(c.ret.val.voice)
    [] c.op = "update_voice" ->
         /\ SameVoice(c.ret.val.voice)
         /\ IsRename(c.arg.voice_name, c.arg.data) =>
              /\ c.arg.voice_name \notin DOMAIN voice_cache
              /\ c.arg.voice_name \notin DOMAIN store_voices
    [] c.op = "delete_voice" ->
         c.arg.voice_name \notin DOMAIN voice_cache /\ c.arg.voice_name \notin DOMAIN store_voices
    [] OTHER -> TRUE

\* C1: as a synchronous mutation of a character or a voice returns its value,
\* the entity read from the cache and read afresh from the store are the same
\* field for field; after a delete, and under the old name after a rename, it
\* is in neither.
C1_CacheStoreConvergence ==
  \A s \in Slots :
    (calls[s].op \in SyncMutations /\ ReturnedOk(s)) => Converged(calls[s])

\* C1's case: a rename has returned, and so has a create_character.
C1_Witness ==
  \E s \in Slots :
    /\ ReturnedOk(s)
    /\ calls[s].op = "update_voice"
    /\ IsRename(calls[s].arg.voice_name, calls[s].arg.data)
    /\ Has(calls[s].arg.data, "new_voice")
    /\ calls[s].ret.val.voice \in DOMAIN voice_cache
    /\ cache_loaded

\* ---- the voice cascade
\* Every record of before is still there; those that named voice `from` now
\* name `to`, and the others are what they were.
CascadedIn(before, after, from, to) ==
  /\ DOMAIN after = DOMAIN before
  /\ \A id \in DOMAIN before :
       IF before[id].voice = from THEN after[id].voice = to ELSE after[id] = before[id]

Renamed(s) ==
  /\ calls[s].op = "update_voice"
  /\ ReturnedOk(s)
  /\ IsRename(calls[s].arg.voice_name, calls[s].arg.data)

\* C2: as a renaming update_voice(old -> new) returns its value, the voice
\* cache has no entry under old and one under new, and every character whose
\* voice was old, in the store and in the character cache, has voice new, the
\* other characters being unchanged.
C2_RenameCascade ==
  \A s \in Slots :
    Renamed(s) =>
      LET old == calls[s].arg.voice_name
          new == NewVoiceName(calls[s].arg.data)
      IN /\ old \notin DOMAIN voice_cache
         /\ new \in DOMAIN voice_cache
         /\ CascadedIn(calls[s].pre.sc, store_characters, old, new)
         /\ CascadedIn(calls[s].pre.cc, character_cache, old, new)

\* C2 where the caches were warmed before the call: the cascade is whole.
C2_RenameCascadeWarmed ==
  \A s \in Slots :
    (Renamed(s) /\ calls[s].pre.loaded) =>
      LET old == calls[s].arg.voice_name
          new == NewVoiceName(calls[s].arg.data)
      IN /\ old \notin DOMAIN voice_cache
         /\ new \in DOMAIN voice_cache
         /\ CascadedIn(calls[s].pre.sc, store_characters, old, new)
         /\ CascadedIn(calls[s].pre.cc, character_cache, old, new)

\* C2 without the character cache: the store and the voice cache always follow.
C2_RenameCascadeStore ==
  \A s \in Slots :
    Renamed(s) =>
      LET old == calls[s].arg.voice_name
          new == NewVoiceName(calls[s].arg.data)
      IN /\ old \notin DOMAIN voice_cache
         /\ new \in DOMAIN voice_cache
         /\ CascadedIn(calls[s].pre.sc, store_characters, old, new)

\* A warmed rename that had a cached character to carry over.
C2_Witness ==
  \E s \in Slots :
    /\ Renamed(s)
    /\ calls[s].pre.loaded
    /\ \E id \in DOMAIN calls[s].pre.cc :
         calls[s].pre.cc[id].voice = calls[s].arg.voice_name

\* ---- the rename onto a name in use
Collided(s) ==
  /\ calls[s].op = "update_voice"
  /\ calls[s].pc = "done"
  /\ ~calls[s].ilv
  /\ IsRename(calls[s].arg.voice_name, calls[s].arg.data)
  /\ calls[s].arg.voice_name \in DOMAIN calls[s].pre.sv
  /\ NewVoiceName(calls[s].arg.data) \in DOMAIN calls[s].pre.sv

\* Key k is as it was: in neither map, or in both with the same value.
SameAt(before, after, k) ==
  /\ (k \in DOMAIN before) <=> (k \in DOMAIN after)
  /\ k \in DOMAIN before => after[k] = before[k]

\* C3: a rename onto the name of another existing voice ends with the
\* validation error (400), and the store and the caches hold the old voice,
\* the colliding voice and every character as they were: every stored row is
\* unchanged, the character cache is unchanged, and every entry the voice
\* cache held before the call is unchanged (one it did not hold may have been
\* loaded from the store).
C3_CollisionKeepsCachedValues ==
  \A s \in Slots :
    Collided(s) =>
      LET pre == calls[s].pre
      IN /\ calls[s].ret = Err(400)
         /\ store_voices = pre.sv
         /\ store_characters = pre.sc
         /\ character_cache = pre.cc
         /\ \A v \in DOMAIN pre.vc : v \in DOMAIN voice_cache /\ voice_cache[v] = pre.vc[v]

\* C3 where the caches were warmed before the call: no cached value moves.
C3_CollisionKeepsCachedValuesWarmed ==
  \A s \in Slots :
    (Collided(s) /\ calls[s].pre.loaded) =>
      LET pre == calls[s].pre
      IN /\ calls[s].ret = Err(400)
         /\ store_voices = pre.sv
         /\ store_characters = pre.sc
         /\ character_cache = pre.cc
         /\ \A v \in DOMAIN pre.vc : v \in DOMAIN voice_cache /\ voice_cache[v] = pre.vc[v]

\* C3 read to the letter: not even a new entry appears in the voice cache.
C3_CollisionChangesNothing ==
  \A s \in Slots :
    Collided(s) =>
      LET old == calls[s].arg.voice_name
          new == NewVoiceName(calls[s].arg.data)
          pre == calls[s].pre
      IN /\ calls[s].ret = Err(400)
         /\ store_voices = pre.sv
         /\ store_characters = pre.sc
         /\ character_cache = pre.cc
         /\ SameAt(pre.vc, voice_cache, old)
         /\ SameAt(pre.vc, voice_cache, new)

\* What the collision leaves in every state: the store and the character
\* cache as they were, and the voice cache as it was but for the entry of the
\* old voice, which the lookup may have loaded, or loaded again, from the store.
C3_CollisionChangesNoRecord ==
  \A s \in Slots :
    Collided(s) =>
      LET old == calls[s].arg.voice_name
          new == NewVoiceName(calls[s].arg.data)
          pre == calls[s].pre
      IN /\ calls[s].ret = Err(400)
         /\ store_voices = pre.sv
         /\ store_characters = pre.sc
         /\ character_cache = pre.cc
         /\ \A v \in (DOMAIN pre.vc \cup DOMAIN voice_cache) \ {old} :
              SameAt(pre.vc, voice_cache, v)
         /\ \/ SameAt(pre.vc, voice_cache, old)
            \/ /\ old \in DOMAIN voice_cache
               /\ voice_cache[old] = VoiceCacheEntry(RowToVoice(store_voices[old]))

\* A collision met with both voices and a character of the old voice cached.
C3_Witness ==
  \E s \in Slots :
    /\ Collided(s)
    /\ calls[s].ret = Err(400)
    /\ calls[s].arg.voice_name \in DOMAIN calls[s].pre.vc
    /\ NewVoiceName(calls[s].arg.data) \in DOMAIN calls[s].pre.vc
    /\ \E id \in DOMAIN character_cache :
         character_cache[id].voice = calls[s].arg.voice_name

\* ---- delete_voice
VoiceDeleted(s) == calls[s].op = "delete_voice" /\ ReturnedOk(s)

\* C4: as delete_voice(v) returns its value, v is in neither the store nor the
\* voice cache, and every character whose voice was v, in the store and in the
\* character cache, has the empty string for voice, the others being unchanged.
C4_DeleteCascade ==
  \A s \in Slots :
    VoiceDeleted(s) =>
      LET v == calls[s].arg.voice_name
      IN /\ v \notin DOMAIN store_voices
         /\ v \notin DOMAIN voice_cache
         /\ CascadedIn(calls[s].pre.sc, store_characters, v, "")
         /\ CascadedIn(calls[s].pre.cc, character_cache, v, "")

\* C4 where the caches were warmed before the call.
C4_DeleteCascadeWarmed ==
  \A s \in Slots :
    (VoiceDeleted(s) /\ calls[s].pre.loaded) =>
      LET v == calls[s].arg.voice_name
      IN /\ v \notin DOMAIN store_voices
         /\ v \notin DOMAIN voice_cache
         /\ CascadedIn(calls[s].pre.sc, store_characters, v, "")
         /\ CascadedIn(calls[s].pre.cc, character_cache, v, "")

C4_Witness ==
  \E s \in Slots :
    /\ VoiceDeleted(s)
    /\ calls[s].pre.loaded
    /\ \E id \in DOMAIN calls[s].pre.cc :
         calls[s].pre.cc[id].voice = calls[s].arg.voice_name

\* ---- store first, cache second
\* The positions of a synchronous mutation at which its write to the store is
\* not yet committed.
BeforeCommit ==
  {"cc_genid", "cc_insert", "uc_get", "uc_update", "dc_get", "dc_delete",
   "cv_insert", "uv_get", "uv_fill", "uv_check", "uv_commit",
   "dv_get", "dv_fill", "dv_commit"}

\* get_voice, called first by update_voice and delete_voice, may have loaded
\* the stored record of the voice into the voice cache: a read, not a mutation.
OnlyLoaded(s) ==
  LET v == calls[s].arg.voice_name
  IN /\ calls[s].op \in {"update_voice", "delete_voice"}
     /\ v \in DOMAIN voice_cache
     /\ voice_cache = Put(calls[s].pre.vc, v, voice_cache[v])
     /\ \/ calls[s].ilv
        \/ /\ v \in DOMAIN calls[s].pre.sv
           /\ voice_cache[v] = VoiceCacheEntry(RowToVoice(calls[s].pre.sv[v]))

\* The caches show nothing of the mutation that call s is making.
CachesUntouched(s) ==
  /\ character_cache = calls[s].pre.cc
  /\ voice_cache = calls[s].pre.vc \/ OnlyLoaded(s)

\* C5: in every create, update and delete of a character or a voice the store
\* commits before the cache changes: while the call has not committed, and
\* when it ends in an error, the caches show nothing of its change; and
\* whenever the caches show it, with nothing else having run, the store has
\* already taken it.
C5_StoreBeforeCache ==
  \A s \in Slots :
    calls[s].op \in SyncMutations =>
      /\ (calls[s].pc \in BeforeCommit \/ calls[s].ret.kind = "err") => CachesUntouched(s)
      /\ (~calls[s].ilv /\ ~CachesUntouched(s)) =>
            <<store_characters, store_voices>> # <<calls[s].pre.sc, calls[s].pre.sv>>

\* The window of C5: an update is committed and the cache has not moved yet.
C5_Witness ==
  \E s \in Slots :
    /\ At(s, "update_character", "uc_cache")
    /\ ~calls[s].ilv
    /\ store_characters # calls[s].pre.sc
    /\ calls[s].arg.id \in DOMAIN character_cache
    /\ CachesUntouched(s)

\* ---- storage failures
\* The positions at which update_character and update_voice go to the store.
FaultPoints ==
  {"uc_get", "uc_update", "uc_readback", "uv_get", "uv_check", "uv_commit", "uv_readback"}

\* The store access the call is about to make raises; the except Exception
\* clause of the operation turns that into a 500, and nothing is written.
StoreFault(s) ==
  /\ calls[s].op \in {"update_character", "update_voice"}
  /\ calls[s].pc \in FaultPoints
  /\ Return(s, Err(500))
  /\ UNCHANGED <<stores, caches, clock, next_uuid, bg>>

FaultCallStep(s) ==
  \/ Call_init_database(s)
  \/ \E data \in CharacterUpdates : Call_update_character(s, Robot001, data)
  \/ \E data \in VoiceUpdates : Call_update_voice(s, "aria", data)

FaultCoroutineStep(s) ==
  \/ Load_chars(s) \/ Load_cfill(s) \/ Load_voices(s) \/ Load_vfill(s)
  \/ Uc_get(s) \/ Uc_update(s) \/ Uc_readback(s) \/ Uc_cache(s)
  \/ Uv_get(s) \/ Uv_fill(s) \/ Uv_check(s) \/ Uv_commit(s) \/ Uv_readback(s) \/ Uv_cache(s)

FaultNext == FaultCallStep(1) \/ FaultCoroutineStep(1) \/ StoreFault(1)

\* One caller, and a store whose accesses can fail.
SpecFault == Init /\ [][FaultNext]_vars

\* C6: no update_character or update_voice call ends, with a value or with an
\* error, having committed its change to the store without the caches holding
\* it: the updated record, the rename of the key, the voice of the cached
\* characters.
C6_NoHalfAppliedUpdate ==
  \A s \in Slots :
    LET c == calls[s]
    IN (/\ c.op \in {"update_character", "update_voice"}
        /\ c.pc = "done"
        /\ ~c.ilv
        /\ <<store_characters, store_voices>> # <<c.pre.sc, c.pre.sv>>) =>
         IF c.op = "update_character"
         THEN SameCharacter(c.arg.id)
         ELSE LET old == c.arg.voice_name
                  rename == IsRename(old, c.arg.data)
                  new == IF rename THEN NewVoiceName(c.arg.data) ELSE old
              IN /\ SameVoice(new)
                 /\ rename => /\ old \notin DOMAIN voice_cache
                              /\ CascadedIn(c.pre.cc, character_cache, old, new)

\* C6 for the calls that return a value with the caches warmed: those leave
\* the store and the caches together.
C6_NoHalfAppliedSuccess ==
  \A s \in Slots :
    LET c == calls[s]
    IN (/\ c.op \in {"update_character", "update_voice"}
        /\ ReturnedOk(s)
        /\ c.pre.loaded) =>
         IF c.op = "update_character"
         THEN SameCharacter(c.arg.id)
         ELSE LET old == c.arg.voice_name
                  rename == IsRename(old, c.arg.data)
                  new == IF rename THEN NewVoiceName(c.arg.data) ELSE old
              IN /\ SameVoice(new)
                 /\ rename => /\ old \notin DOMAIN voice_cache
                              /\ CascadedIn(c.pre.cc, character_cache, old, new)

\* ---- character ids
RobotArmLoud == <<" ","R","o","b","o","t"," "," ","-","A","r","m","!">>
RobotArm001 == <<"r","o","b","o","t","-","a","r","m","-","0","0","1">>

NamedCreate(name) ==
  [name |-> name, voice |-> "", system_prompt |-> "", image_url |-> "",
   images |-> <<>>, is_active |-> TRUE]

IdsCallStep(s) ==
  \/ \E name \in {Robot, RobotArm, RobotArmLoud, Bangs} :
       Call_create_character(s, NamedCreate(name))
  \/ \E id \in {Robot001, Robot002} : Call_delete_character(s, id)

IdsCoroutineStep(s) ==
  \/ Cc_genid(s) \/ Cc_insert(s) \/ Cc_cache(s)
  \/ Dc_get(s) \/ Dc_delete(s) \/ Dc_cache(s)

IdsNext == IdsCallStep(1) \/ IdsCoroutineStep(1)

\* One caller creating characters of several names and deleting some.
SpecIds == Init /\ [][IdsNext]_vars

\* The slug each of the names is to give, written out.
ExpectedSlug(name) ==
  CASE name = Robot -> <<"r","o","b","o","t">>
    [] name = RobotArm -> <<"r","o","b","o","t","-","a","r","m">>
    [] name = RobotArmLoud -> <<"r","o","b","o","t","-","a","r","m">>
    [] name = Bangs -> <<"c","h","a","r","a","c","t","e","r">>

ThreeDigits(n) ==
  <<DigitSeq[(n \div 100) + 1], DigitSeq[((n \div 10) % 10) + 1], DigitSeq[(n % 10) + 1]>>

\* The highest NNN with slug-NNN among ids, 0 when there is none.
HighestSuffix(slug, ids) ==
  MaxOf({0} \cup {n \in 0..999 : (slug \o <<"-">> \o ThreeDigits(n)) \in ids})

\* Call s has been given its id.
Allocated(s) ==
  /\ calls[s].op = "create_character"
  /\ calls[s].pc \in {"cc_insert", "cc_cache", "done"}

C7_WitnessSecond ==
  \E s \in Slots :
    /\ Allocated(s)
    /\ ReturnedOk(s)
    /\ calls[s].arg.name = Robot
    /\ DOMAIN calls[s].pre.sc = {Robot001}
    /\ calls[s].ret.val.id = Robot002

\* ---- overlapping creations
RaceNext ==
  \E s \in Slots :
    \/ \E data \in CharacterCreates : Call_create_character(s, data)
    \/ Cc_genid(s) \/ Cc_insert(s) \/ Cc_cache(s)

\* Two callers creating characters of the same name, in any interleaving.
SpecRace == Init /\ [][RaceNext]_vars

Inserted(s) ==
  /\ calls[s].op = "create_character"
  /\ calls[s].pc = "cc_cache" \/ (calls[s].pc = "done" /\ calls[s].ret.kind = "ok")

\* C8 as stated: whatever the interleaving, two creations are never given the
\* same id.
C8_NoSharedAllocation ==
  \A s, t \in Slots :
    (s # t /\ Allocated(s) /\ Allocated(t)) =>
      calls[s].loc.character_id # calls[t].loc.character_id

\* C8 amended: two overlapping creations can be given the same id, but the
\* primary key of the store lets one of them at most insert it; the other
\* ends with a storage error (500), so that no two characters created share
\* an id.
C8_NoSharedInsert ==
  \A s, t \in Slots :
    (/\ s # t
     /\ Allocated(s) /\ Allocated(t)
     /\ calls[s].loc.character_id = calls[t].loc.character_id) =>
       /\ ~(Inserted(s) /\ Inserted(t))
       /\ (Inserted(s) /\ calls[t].pc = "done") => calls[t].ret = Err(500)

\* Two creations given one id: the first inserted it, the second failed.
C8_Witness ==
  \E s, t \in Slots :
    /\ s # t
    /\ Allocated(s) /\ Allocated(t)
    /\ calls[s].loc.character_id = calls[t].loc.character_id
    /\ calls[s].pc = "done" /\ calls[s].ret.kind = "ok"
    /\ calls[t].ret = Err(500)

\* ---- the background write path
MessageData ==
  [conversation_id |-> "c1", role |-> "user", name |-> None, content |-> "hi",
   character_id |-> None]
ConversationData == [title |-> None, active_characters |-> <<>>]

\* The identifiers handed out so far.
IssuedIds == {UuidSeq[k] : k \in 1..next_uuid}

BgCallStep(s) ==
  \/ Call_create_message_background(s, MessageData)
  \/ Call_create_conversation_background(s, ConversationData)
  \/ Call_get_messages(s, "c1", NoLimit, 0)
  \/ \E id \in IssuedIds : Call_get_conversation(s, id)

BgCoroutineStep(s) == Gm_select(s) \/ Gc_select(s)

\* The steps of the detached task that inserts message id.
MessageTaskStep(id) ==
  \E i \in DOMAIN bg :
    /\ bg[i].op = "create_message_async"
    /\ bg[i].arg.message_id = id
    /\ Cm_start(i) \/ Cm_insert(i)

BgTaskStep == \E i \in DOMAIN bg : Cm_start(i) \/ Cm_insert(i) \/ Cvb_start(i) \/ Cvb_insert(i)

BgNext == BgCallStep(1) \/ BgCoroutineStep(1) \/ BgTaskStep

\* A new database: no row in any table.
InitEmpty == InitOver(NoCharacters, NoVoices)

\* One caller creating conversations and messages in the background and
\* reading them, and the tasks it detaches.
SpecBg == InitEmpty /\ [][BgNext]_vars

MsgCallStep(s) ==
  \/ Call_create_message_background(s, MessageData)
  \/ Call_get_messages(s, "c1", NoLimit, 0)
  \/ \E id \in IssuedIds : Call_delete_message(s, id)

MsgCoroutineStep(s) == Gm_select(s) \/ Dm_delete(s)

MsgTaskStep == \E i \in DOMAIN bg : Cm_start(i) \/ Cm_insert(i)

MsgNext == MsgCallStep(1) \/ MsgCoroutineStep(1) \/ MsgTaskStep

\* One caller of the message operations and the tasks it detaches.
SpecMsg == InitEmpty /\ [][MsgNext]_vars

\* The event loop runs every task that is ready: no detached insert waits
\* for ever.
SpecMsgFair ==
  SpecMsg /\ \A id \in Range(UuidSeq) : WF_vars(MessageTaskStep(id))

PendingMessage(id) ==
  \E i \in DOMAIN bg : bg[i].op = "create_message_async" /\ bg[i].arg.message_id = id
PendingConversation(id) ==
  \E i \in DOMAIN bg : bg[i].op = "create_conversation_async" /\ bg[i].arg.conversation_id = id

\* C9: create_message_background and create_conversation_background return
\* the identifier before the insert: as they return, the store is what it was
\* and the task is still to run; and for as long as the task is pending the
\* row is not in the store, so that a read of the identifier finds nothing.
C9_IdBeforeInsert ==
  /\ \A s \in Slots :
       (/\ calls[s].op \in {"create_message_background", "create_conversation_background"}
        /\ ~calls[s].ilv) =>
          /\ calls[s].pc = "done" /\ calls[s].ret.kind = "ok"
          /\ stores = <<calls[s].pre.sc, calls[s].pre.sv, calls[s].pre.sconv, calls[s].pre.sm>>
          /\ IF calls[s].op = "create_message_background"
             THEN PendingMessage(calls[s].ret.val)
             ELSE PendingConversation(calls[s].ret.val)
  /\ \A id \in IssuedIds :
       /\ PendingMessage(id) => id \notin DOMAIN store_messages
       /\ PendingConversation(id) => id \notin DOMAIN store_conversations
  /\ \A s \in Slots :
       (/\ calls[s].op = "get_conversation" /\ calls[s].pc = "done" /\ ~calls[s].ilv
        /\ PendingConversation(calls[s].arg.conversation_id)) => calls[s].ret = Err(404)
  /\ \A s \in Slots :
       (calls[s].op = "get_messages" /\ calls[s].pc = "done" /\ ~calls[s].ilv) =>
          \A i \in DOMAIN calls[s].ret.val : ~PendingMessage(calls[s].ret.val[i].message_id)

\* A read of a conversation between the return of its identifier and the
\* insert: not found.
C9_Witness ==
  \E s \in Slots :
    /\ calls[s].op = "get_conversation" /\ calls[s].pc = "done" /\ ~calls[s].ilv
    /\ PendingConversation(calls[s].arg.conversation_id)
    /\ calls[s].ret = Err(404)

\* The same for a message: get_messages returns without it.
C9_WitnessMessage ==
  \E s \in Slots : \E id \in IssuedIds :
    /\ calls[s].op = "get_messages" /\ calls[s].pc = "done" /\ ~calls[s].ilv
    /\ PendingMessage(id)
    /\ \A i \in DOMAIN calls[s].ret.val : calls[s].ret.val[i].message_id # id

\* get_messages has returned the messages the store holds for the
\* conversation, all of them, by created_at.
ReadInOrder(s) ==
  LET r == calls[s].ret.val
  IN /\ {r[i].message_id : i \in DOMAIN r} = MessagesOf(store_messages, calls[s].arg.conversation_id)
     /\ \A i, j \in DOMAIN r : i < j => r[i].created_at <= r[j].created_at
     /\ \A i \in DOMAIN r : r[i] = RowToMessage(store_messages[r[i].message_id])

Call_get_voice(s, voice_name) ==
  /\ ~Running(s)
  /\ LET c == NewCall("get_voice", "gv_select", [voice_name |-> voice_name], EmptyMap, FALSE)
     IN IF VoiceCacheHit(voice_name)
        THEN StepTo(s, [c EXCEPT !.pc = "done", !.ret = Ok(voice_cache[voice_name].config)])
        ELSE StepTo(s, c)
  /\ UNCHANGED <<stores, caches, clock, next_uuid, bg>>

\* SELECT * FROM voices WHERE voice = ? (lines 613-622)
Gv_select(s) ==
  /\ At(s, "get_voice", "gv_select")
  /\ IF calls[s].arg.voice_name \in DOMAIN store_voices
     THEN Goto(s, "gv_fill", [row |-> store_voices[calls[s].arg.voice_name]])
     ELSE Return(s, Err(404))
  /\ UNCHANGED <<stores, caches, clock, next_uuid, bg>>

\* A faulty get_voice: the voice read is returned and the cache left alone.
Gv_fill_Uncached(s) ==
  /\ At(s, "get_voice", "gv_fill")
  /\ Return(s, Ok(RowToVoice(calls[s].loc.row)))
  /\ UNCHANGED <<stores, caches, clock, next_uuid, bg>>

\* self._voice_cache[voice_name] = {...}; return voice (lines 624-632)
Gv_fill(s) ==
  /\ At(s, "get_voice", "gv_fill")
  /\ LET voice == RowToVoice(calls[s].loc.row)
     IN /\ voice_cache' = Put(voice_cache, calls[s].arg.voice_name, VoiceCacheEntry(voice))
        /\ Return(s, Ok(voice))
  /\ UNCHANGED <<stores, character_cache, cache_loaded, clock, next_uuid, bg>>

\* -------------------------------------------------------- get_character
\* get_character (lines 379-402): the cached character, or else the store is
\* read; the character read is returned and put nowhere.
Call_get_character(s, character_id) ==
  /\ ~Running(s)
  /\ LET c == NewCall("get_character", "gch_select", [character_id |-> character_id],
                      EmptyMap, FALSE)
     IN IF CharacterCacheHit(character_id)
        THEN StepTo(s, [c EXCEPT !.pc = "done", !.ret = Ok(character_cache[character_id])])
        ELSE StepTo(s, c)
  /\ UNCHANGED <<stores, caches, clock, next_uuid, bg>>

\* SELECT * FROM characters WHERE id = ? (lines 385-396)
Gch_select(s) ==
  /\ At(s, "get_character", "gch_select")
  /\ IF calls[s].arg.character_id \in DOMAIN store_characters
     THEN Return(s, Ok(RowToCharacter(store_characters[calls[s].arg.character_id])))
     ELSE Return(s, Err(404))
  /\ UNCHANGED <<stores, caches, clock, next_uuid, bg>>

\* ------------------------------------- create_messages_batch_background
\* The uuid4 values that the batch tasks under way have still to draw.
RECURSIVE UuidsOwedFrom(_)
UuidsOwedFrom(i) ==
  IF i > Len(bg) THEN 0
  ELSE (IF bg[i].op = "create_messages_batch_async" THEN Len(bg[i].arg.messages) ELSE 0)
         + UuidsOwedFrom(i + 1)
UuidsLeft == Len(UuidSeq) - next_uuid - UuidsOwedFrom(1)

\* create_messages_batch_background (lines 1221-1223): detaches the task and
\* returns nothing.  The task record keeps the messages still to insert and
\* the rows inserted in its open transaction.
Call_create_messages_batch_background(s, messages) ==
  /\ ~Running(s)
  /\ CanReadClock
  /\ UuidsLeft >= Len(messages)
  /\ Len(bg) < MaxPending
  /\ StepTo(s, [NewCall("create_messages_batch_background", "done",
                        [messages |-> messages], EmptyMap, FALSE)
                  EXCEPT !.ret = Ok(None)])
  /\ bg' = Append(bg, NewTask("create_messages_batch_async", "cmb_start",
                              [messages |-> messages, rows |-> <<>>]))
  /\ UNCHANGED <<stores, caches, clock, next_uuid>>

\* _create_messages_batch_async up to its first await: now = datetime.now()
Cmb_start(i) ==
  /\ i \in DOMAIN bg
  /\ bg[i].op = "create_messages_batch_async" /\ bg[i].pc = "cmb_start"
  /\ bg' = [bg EXCEPT ![i].pc = "cmb_insert", ![i].now = clock, ![i].rd = FALSE]
  /\ clock' = clock + 1
  /\ BgInterleaves
  /\ UNCHANGED <<stores, caches, next_uuid>>

\* One turn of the loop (lines 1230-1237): message_id = uuid4(); INSERT INTO
\* messages, in the transaction the task holds open.  A message_id the table
\* holds breaks the primary key: line 1241 logs it and nothing is committed.
Cmb_insert(i) ==
  /\ i \in DOMAIN bg
  /\ bg[i].op = "create_messages_batch_async" /\ bg[i].pc = "cmb_insert"
  /\ bg[i].arg.messages # <<>>
  /\ LET a == bg[i].arg
         row == NewMessageRow(Uuid4, Head(a.messages), bg[i].now)
     IN bg' = IF Uuid4 \in DOMAIN store_messages
              THEN RemoveAt(bg, i)
              ELSE [bg EXCEPT ![i].arg = [messages |-> Tail(a.messages),
                                          rows |-> Append(a.rows, row)]]
  /\ next_uuid' = next_uuid + 1
  /\ BgInterleaves
  /\ UNCHANGED <<stores, caches, clock>>

\* await conn.commit() (line 1238): the rows of the transaction reach the table.
Cmb_commit(i) ==
  /\ i \in DOMAIN bg
  /\ bg[i].op = "create_messages_batch_async" /\ bg[i].pc = "cmb_insert"
  /\ bg[i].arg.messages = <<>>
  /\ LET rows == bg[i].arg.rows
         ids == {rows[k].message_id : k \in DOMAIN rows}
     IN store_messages' =
          [id \in (DOMAIN store_messages) \cup ids |->
             IF id \in ids
             THEN (CHOOSE r \in Range(rows) : r.message_id = id)
             ELSE store_messages[id]]
  /\ bg' = RemoveAt(bg, i)
  /\ BgInterleaves
  /\ UNCHANGED <<store_characters, store_voices, store_conversations, caches, clock, next_uuid>>

\* ------------------------------------------- a detached task's store fails
\* aiosqlite.connect, execute or commit raises in a detached task; its
\* `except Exception` logs the error and the task ends (lines 844-845,
\* 939-940, 1183-1185, 1240-1241).  What the task's transaction held is
\* rolled back with its connection.
TaskStorePoints == {"pa_commit", "cm_insert", "cvb_insert", "cmb_insert"}
\* A faulty task: its exception is raised into the caller's coroutine.
TaskStoreFault_Raised(i) ==
  /\ i \in DOMAIN bg
  /\ bg[i].pc \in TaskStorePoints
  /\ bg' = RemoveAt(bg, i)
  /\ calls' = [x \in Slots |-> [calls[x] EXCEPT !.ret = Err(500), !.ilv = TRUE]]
  /\ UNCHANGED <<stores, caches, clock, next_uuid>>

TaskStoreFault(i) ==
  /\ i \in DOMAIN bg
  /\ bg[i].pc \in TaskStorePoints
  /\ bg' = RemoveAt(bg, i)
  /\ BgInterleaves
  /\ UNCHANGED <<stores, caches, clock, next_uuid>>

\* ------------------------------------------------ detached tasks that fail
MessageBatch == <<MessageData, [MessageData EXCEPT !.content = "yo"]>>

\* A database that holds the two voices and nothing else.
InitVoices == InitOver(NoCharacters, SeedVoices)

\* The tasks detached so far are no more than MaxTasks: each reads the clock once.
MaxTasks == 2
TaskBudget == clock + OwedReads <= MaxTasks

TfCallStep(s) ==
  \/ Call_get_voice(s, "aria")
  \/ TaskBudget /\ Call_update_cached_audio_tokens(s, "aria", "t1")
  \/ TaskBudget /\ UuidsLeft >= 1 /\ Call_create_message_background(s, MessageData)
  \/ TaskBudget /\ UuidsLeft >= 1 /\ Call_create_conversation_background(s, ConversationData)
  \/ TaskBudget /\ Call_create_messages_batch_background(s, MessageBatch)

TfCoroutineStep(s) == Gv_select(s) \/ Gv_fill(s)

TfTaskStep ==
  \E i \in DOMAIN bg :
    \/ Pa_commit(i)
    \/ Cm_start(i) \/ Cm_insert(i)
    \/ Cvb_start(i) \/ Cvb_insert(i)
    \/ Cmb_start(i) \/ Cmb_insert(i) \/ Cmb_commit(i)

TfNext ==
  \/ TfCallStep(1)
  \/ TfCoroutineStep(1)
  \/ TfTaskStep
  \/ \E i \in DOMAIN bg : TaskStoreFault(i)

\* One caller of the background operations, the tasks it detaches, and a
\* store that may fail under any of them.
SpecTaskFault == InitVoices /\ [][TfNext]_vars

\* A row of identifier id is in the open transaction of a batch task.
PendingBatchRow(id) ==
  \E i \in DOMAIN bg :
    /\ bg[i].op = "create_messages_batch_async"
    /\ \E k \in DOMAIN bg[i].arg.rows : bg[i].arg.rows[k].message_id = id
PendingRow(id) == PendingMessage(id) \/ PendingConversation(id) \/ PendingBatchRow(id)
StoredRow(id) == id \in (DOMAIN store_messages) \cup (DOMAIN store_conversations)

\* A detached task ends and the store is as it was.
TaskEndsWithoutWrite == \E i \in DOMAIN bg : bg' = RemoveAt(bg, i) /\ stores' = stores

\* C11: when a detached task (message, message batch, conversation,
\* audio-token persist) ends without having written to the store, nothing but
\* the task goes: no caller's result or position changes, both caches are as
\* they were and no task is put in its place; and a row whose task has ended
\* without inserting it is never inserted later.
C11_TaskFailureOnlyLogged ==
  /\ [][TaskEndsWithoutWrite =>
          /\ caches' = caches
          /\ \A s \in Slots : calls'[s].ret = calls[s].ret /\ calls'[s].pc = calls[s].pc
          /\ Len(bg') = Len(bg) - 1]_vars
  /\ [][\A id \in IssuedIds :
          (~PendingRow(id) /\ ~StoredRow(id)) => (~PendingRow(id))' /\ (~StoredRow(id))']_vars

\* Every task has ended, one of them at least a failed insert, and the caller's
\* last operation returned normally.
C11_Witness ==
  /\ bg = <<>>
  /\ \E id \in IssuedIds : ~StoredRow(id)
  /\ "aria" \in DOMAIN voice_cache
  /\ voice_cache["aria"].audio_tokens = "t1"
  /\ store_voices["aria"].audio_tokens # JsonDumpsValue("t1")
  /\ calls[1].ret.kind = "ok"

\* ------------------------------------- the identifiers of background rows
BtCallStep(s) ==
  \/ TaskBudget /\ UuidsLeft >= 1 /\ Call_create_message_background(s, MessageData)
  \/ TaskBudget /\ UuidsLeft >= 1 /\ Call_create_conversation_background(s, ConversationData)
  \/ TaskBudget /\ Call_create_messages_batch_background(s, MessageBatch)

BtTaskStep ==
  \E i \in DOMAIN bg :
    \/ Cm_start(i) \/ Cm_insert(i)
    \/ Cvb_start(i) \/ Cvb_insert(i)
    \/ Cmb_start(i) \/ Cmb_insert(i) \/ Cmb_commit(i)

BtNext == BtCallStep(1) \/ BtTaskStep

\* One caller of the three background creates, and the tasks it detaches.
SpecBatch == InitEmpty /\ [][BtNext]_vars

BackgroundCreates ==
  {"create_message_background", "create_conversation_background",
   "create_messages_batch_background"}

\* The batch task detached by the call in slot s, nothing of it run yet.
BatchDetached(s) ==
  \E i \in DOMAIN bg :
    /\ bg[i].op = "create_messages_batch_async" /\ bg[i].pc = "cmb_start"
    /\ bg[i].arg.messages = calls[s].arg.messages
    /\ bg[i].arg.rows = <<>>

\* The rows that enter the two tables in a step carry an identifier that a
\* task held for them before the step.
InsertedAsHeld ==
  /\ \A id \in (DOMAIN store_messages') \ (DOMAIN store_messages) :
       /\ store_messages'[id].message_id = id
       /\ PendingMessage(id) \/ PendingBatchRow(id)
  /\ \A id \in (DOMAIN store_conversations') \ (DOMAIN store_conversations) :
       /\ store_conversations'[id].conversation_id = id
       /\ PendingConversation(id)

Call_get_cached_audio_tokens(s, voice_name) ==
  /\ ~Running(s)
  /\ StepTo(s, [NewCall("get_cached_audio_tokens", "done", [voice_name |-> voice_name],
                        EmptyMap, FALSE)
                  EXCEPT !.ret = Ok(GetCachedAudioTokens(voice_name))])
  /\ UNCHANGED <<stores, caches, clock, next_uuid, bg>>

HotCallStep(s) ==
  \/ Call_init_database(s)
  \/ \E t \in {"t1", "t2"} : Call_update_cached_audio_tokens(s, "aria", t)
  \/ Call_get_cached_audio_tokens(s, "aria")
  \/ Call_clear_voice_cache(s)

HotCoroutineStep(s) == Load_chars(s) \/ Load_cfill(s) \/ Load_voices(s) \/ Load_vfill(s)

HotNext ==
  \/ HotCallStep(1)
  \/ HotCoroutineStep(1)
  \/ \E i \in DOMAIN bg : Pa_commit(i)

\* One caller of the hot path over a database that holds the voices, and the
\* persist tasks it detaches.
SpecHot == InitVoices /\ [][HotNext]_vars

\* A persist task for (voice_name, audio_tokens) is pending.
PendingPersist(voice_name, audio_tokens) ==
  \E i \in DOMAIN bg :
    /\ bg[i].op = "persist_audio_tokens"
    /\ bg[i].arg = [voice_name |-> voice_name, audio_tokens |-> audio_tokens]

\* update_cached_audio_tokens has just returned in slot s.
HotWritten(s) ==
  calls[s].op = "update_cached_audio_tokens" /\ calls[s].pc = "done" /\ ~calls[s].ilv

\* The hot path did its work for the call in slot s: the cache holds the
\* tokens, a persist task is detached, and the store is as it was.
HotPathDone(s) ==
  /\ GetCachedAudioTokens(calls[s].arg.voice_name) = calls[s].arg.audio_tokens
  /\ PendingPersist(calls[s].arg.voice_name, calls[s].arg.audio_tokens)
  /\ stores = <<calls[s].pre.sc, calls[s].pre.sv, calls[s].pre.sconv, calls[s].pre.sm>>

\* C13: for every voice v of the store, as update_cached_audio_tokens(v, t)
\* returns the cache holds t for v (get_cached_audio_tokens(v) is t), a
\* persist task is detached and the caller has not touched the store; and
\* get_cached_audio_tokens returns the cached value and leaves the store alone.
C13_HotPathEveryStoredVoice ==
  \A s \in Slots :
    /\ (HotWritten(s) /\ calls[s].arg.voice_name \in DOMAIN calls[s].pre.sv) => HotPathDone(s)
    /\ (calls[s].op = "get_cached_audio_tokens" /\ ~calls[s].ilv) =>
          /\ calls[s].pc = "done"
          /\ calls[s].ret = Ok(GetCachedAudioTokens(calls[s].arg.voice_name))
          /\ stores = <<calls[s].pre.sc, calls[s].pre.sv, calls[s].pre.sconv, calls[s].pre.sm>>

\* What holds of C13: the same for every voice that the voice cache holds when
\* the call is made.
C13_HotPathEveryCachedVoice ==
  \A s \in Slots :
    /\ (HotWritten(s) /\ calls[s].arg.voice_name \in DOMAIN calls[s].pre.vc) => HotPathDone(s)
    /\ (HotWritten(s) /\ calls[s].arg.voice_name \notin DOMAIN calls[s].pre.vc) =>
          /\ caches = <<calls[s].pre.cc, calls[s].pre.vc, calls[s].pre.loaded>>
          /\ stores = <<calls[s].pre.sc, calls[s].pre.sv, calls[s].pre.sconv, calls[s].pre.sm>>
    /\ (calls[s].op = "get_cached_audio_tokens" /\ ~calls[s].ilv) =>
          /\ calls[s].pc = "done"
          /\ calls[s].ret = Ok(GetCachedAudioTokens(calls[s].arg.voice_name))
          /\ stores = <<calls[s].pre.sc, calls[s].pre.sv, calls[s].pre.sconv, calls[s].pre.sm>>

\* The tokens written to a cached voice are read back at once.
C13_Witness ==
  \E s \in Slots :
    /\ HotWritten(s)
    /\ calls[s].arg.voice_name \in DOMAIN calls[s].pre.vc
    /\ GetCachedAudioTokens("aria") = "t2"
    /\ store_voices["aria"].audio_tokens = JsonDumpsValue("t1")

\* C14: once update_cached_audio_tokens has been called on a cached voice and
\* every persist task has completed, the audio_tokens stored for the voice are
\* those the cache holds for it.
C14_StoreFollowsCache ==
  (/\ bg = <<>>
   /\ clock > 1
   /\ "aria" \in DOMAIN voice_cache
   /\ "aria" \in DOMAIN store_voices) =>
     store_voices["aria"].audio_tokens = JsonDumpsValue(voice_cache["aria"].audio_tokens)

\* What holds of C14: the tokens stored are those of one of the calls made,
\* and when only one value was ever written the store comes to hold it.
C14_StoreHoldsSomeWrite ==
  (bg = <<>> /\ clock > 1) =>
     store_voices["aria"].audio_tokens \in {JsonDumpsValue("t1"), JsonDumpsValue("t2")}

\* Two calls and both persist tasks done.
C14_Witness ==
  /\ bg = <<>>
  /\ clock = 3
  /\ "aria" \in DOMAIN voice_cache
  /\ voice_cache["aria"].audio_tokens = "t2"
  /\ store_voices["aria"].audio_tokens = JsonDumpsValue("t2")

\* ------------------------------------------ lookups that miss the cache
\* One caller warms the caches, creates a character and clears the voice
\* cache; another looks voices and characters up meanwhile.
LkCallStep(s) ==
  \/ s = 1 /\ Call_init_database(s)
  \/ s = 1 /\ \E data \in CharacterCreates : Call_create_character(s, data)
  \/ s = 1 /\ Call_clear_voice_cache(s)
  \/ s = 2 /\ \E v \in {"aria", "zed"} : Call_get_voice(s, v)
  \/ s = 2 /\ Call_get_character(s, Robot001)

LkCoroutineStep(s) ==
  \/ Load_chars(s) \/ Load_cfill(s) \/ Load_voices(s) \/ Load_vfill(s)
  \/ Cc_genid(s) \/ Cc_insert(s) \/ Cc_cache(s)
  \/ Gv_select(s) \/ Gv_fill(s)
  \/ Gch_select(s)

LkNext == \E s \in Slots : LkCallStep(s) \/ LkCoroutineStep(s)

SpecLookup == InitVoices /\ [][LkNext]_vars

\* The call in slot s has returned with nothing interleaved, having started on
\* warmed caches.
ReturnedWarm(s, op) ==
  calls[s].op = op /\ calls[s].pc = "done" /\ ~calls[s].ilv /\ calls[s].pre.loaded

StoresAsBefore(s) ==
  stores = <<calls[s].pre.sc, calls[s].pre.sv, calls[s].pre.sconv, calls[s].pre.sm>>
CachesAsBefore(s) ==
  caches = <<calls[s].pre.cc, calls[s].pre.vc, calls[s].pre.loaded>>

\* C15: get_voice(v) on a warmed voice cache that lacks v reads the store: if
\* the store has the row, the voice of that row is returned and the cache
\* holds it under v from then on; if the store lacks the row the call ends
\* NotFound (404) and the caches are as they were.
C15_GetVoiceFillsCache ==
  \A s \in Slots :
    LET v == calls[s].arg.voice_name
    IN (ReturnedWarm(s, "get_voice") /\ v \notin DOMAIN calls[s].pre.vc) =>
         /\ StoresAsBefore(s)
         /\ IF v \in DOMAIN store_voices
            THEN /\ calls[s].ret = Ok(RowToVoice(store_voices[v]))
                 /\ voice_cache = Put(calls[s].pre.vc, v, VoiceCacheEntry(RowToVoice(store_voices[v])))
                 /\ character_cache = calls[s].pre.cc
            ELSE /\ calls[s].ret = Err(404)
                 /\ CachesAsBefore(s)

\* A stored voice looked up after clear_voice_cache, and found.
C15_Witness ==
  \E s \in Slots :
    /\ ReturnedWarm(s, "get_voice")
    /\ calls[s].arg.voice_name \notin DOMAIN calls[s].pre.vc
    /\ calls[s].ret.kind = "ok"
    /\ calls[s].arg.voice_name \in DOMAIN voice_cache

\* A voice that the store lacks, looked up on warmed caches: not found.
C15_WitnessNotFound ==
  \E s \in Slots :
    /\ ReturnedWarm(s, "get_voice")
    /\ calls[s].arg.voice_name \notin DOMAIN store_voices
    /\ calls[s].ret = Err(404)

\* C16: get_character(id) on a warmed character cache that lacks id reads the
\* store: if the store has the row, the character of that row is returned and
\* the character cache holds it from then on; the call ends NotFound (404)
\* only if the store lacks the row.
C16_GetCharacterFillsCache ==
  \A s \in Slots :
    LET id == calls[s].arg.character_id
    IN (ReturnedWarm(s, "get_character") /\ id \notin DOMAIN calls[s].pre.cc) =>
         /\ StoresAsBefore(s)
         /\ IF id \in DOMAIN store_characters
            THEN /\ calls[s].ret = Ok(RowToCharacter(store_characters[id]))
                 /\ id \in DOMAIN character_cache
                 /\ character_cache[id] = RowToCharacter(store_characters[id])
            ELSE calls[s].ret = Err(404)

\* What holds of C16: the stored character is returned, or NotFound when the
\* store lacks the row, and neither cache is written.
C16_GetCharacterReadsStore ==
  \A s \in Slots :
    LET id == calls[s].arg.character_id
    IN (ReturnedWarm(s, "get_character") /\ id \notin DOMAIN calls[s].pre.cc) =>
         /\ StoresAsBefore(s)
         /\ CachesAsBefore(s)
         /\ calls[s].ret = IF id \in DOMAIN store_characters
                           THEN Ok(RowToCharacter(store_characters[id]))
                           ELSE Err(404)

\* A stored character looked up while the warmed cache lacks it, and returned.
C16_Witness ==
  \E s \in Slots :
    /\ ReturnedWarm(s, "get_character")
    /\ calls[s].arg.character_id \notin DOMAIN calls[s].pre.cc
    /\ calls[s].arg.character_id \in DOMAIN store_characters
    /\ calls[s].ret.kind = "ok"

\* ------------------------------------------- conversations, synchronously
\* create_conversation (lines 880-916): conversation_id and now, then the INSERT.
Call_create_conversation(s, data) ==
  /\ ~Running(s)
  /\ CanReadClock
  /\ UuidsLeft >= 1
  /\ StepTo(s, NewCall("create_conversation", "cvc_insert", data,
                       [conversation_id |-> Uuid4, now |-> clock], FALSE))
  /\ next_uuid' = next_uuid + 1
  /\ clock' = clock + 1
  /\ UNCHANGED <<stores, caches, bg>>

\* INSERT INTO conversations ...; commit (lines 894-901), then the return.
Cvc_insert(s) ==
  /\ At(s, "create_conversation", "cvc_insert")
  /\ LET l == calls[s].loc
         row == NewConversationRow(l.conversation_id, calls[s].arg, l.now)
     IN IF l.conversation_id \in DOMAIN store_conversations
        THEN Return(s, Err(500)) /\ UNCHANGED store_conversations
        ELSE /\ store_conversations' = Put(store_conversations, l.conversation_id, row)
             /\ Return(s, Ok(RowToConversation(row)))
  /\ UNCHANGED <<store_characters, store_voices, store_messages, caches, clock, next_uuid, bg>>

\* The operations that end in update_conversation.
ConversationWrites ==
  {"update_conversation", "add_character_to_conversation",
   "remove_character_from_conversation"}

\* An HTTPException raised under add_character_to_conversation or
\* remove_character_from_conversation meets their only handler, `except
\* Exception` (lines 1065-1067, 1080-1082), and leaves as a 500;
\* update_conversation re-raises it as it is (lines 1028-1029).
ConvRaise(s, code) ==
  Return(s, IF calls[s].op = "update_conversation" THEN Err(code) ELSE Err(500))

\* The SET list of lines 998-1012 applied to a row.
ApplyConversationUpdate(row, data, now) ==
  [row EXCEPT
     !.title = IF Has(data, "title") THEN data.title ELSE @,
     !.active_characters =
        IF Has(data, "active_characters") THEN JsonDumpsObjs(data.active_characters) ELSE @,
     !.updated_at = now]

\* update_conversation up to its first await (lines 997-1013).
Call_update_conversation(s, conversation_id, data) ==
  /\ ~Running(s)
  /\ CanReadClock
  /\ LET c == NewCall("update_conversation", "ucv_update",
                      [conversation_id |-> conversation_id, data |-> data], EmptyMap, FALSE)
     IN IF ~Has(data, "title") /\ ~Has(data, "active_characters")
        THEN /\ StepTo(s, [c EXCEPT !.pc = "done", !.ret = Err(400)])
             /\ UNCHANGED clock
        ELSE /\ StepTo(s, [c EXCEPT !.loc = [data |-> data, now |-> clock]])
             /\ clock' = clock + 1
  /\ UNCHANGED <<stores, caches, next_uuid, bg>>

\* UPDATE conversations SET ... WHERE conversation_id = ?; commit; rowcount
\* (lines 1015-1023)
Ucv_update(s) ==
  /\ calls[s].op \in ConversationWrites /\ calls[s].pc = "ucv_update"
  /\ LET id == calls[s].arg.conversation_id
         l == calls[s].loc
     IN IF id \in DOMAIN store_conversations
        THEN /\ store_conversations' =
                  [store_conversations EXCEPT ![id] = ApplyConversationUpdate(@, l.data, l.now)]
             /\ Goto(s, "ucv_get", l)
        ELSE /\ UNCHANGED store_conversations
             /\ ConvRaise(s, 404)
  /\ UNCHANGED <<store_characters, store_voices, store_messages, caches, clock, next_uuid, bg>>

\* return await self.get_conversation(conversation_id) (line 1026)
Ucv_get(s) ==
  /\ calls[s].op \in ConversationWrites /\ calls[s].pc = "ucv_get"
  /\ LET id == calls[s].arg.conversation_id
     IN IF id \in DOMAIN store_conversations
        THEN Return(s, Ok(RowToConversation(store_conversations[id])))
        ELSE ConvRaise(s, 404)
  /\ UNCHANGED <<stores, caches, clock, next_uuid, bg>>

\* add_character_to_conversation (lines 1049-1067)
Call_add_character_to_conversation(s, conversation_id, character_data) ==
  /\ ~Running(s)
  /\ CanReadClock
  /\ StepTo(s, NewCall("add_character_to_conversation", "acc_get",
                       [conversation_id |-> conversation_id, character_data |-> character_data],
                       EmptyMap, TRUE))
  /\ UNCHANGED <<stores, caches, clock, next_uuid, bg>>

\* A faulty add: the character is appended whether or not its id is in the
\* list already.
Acc_get_AlwaysAppends(s) ==
  /\ At(s, "add_character_to_conversation", "acc_get")
  /\ LET id == calls[s].arg.conversation_id
         character_data == calls[s].arg.character_data
     IN IF id \notin DOMAIN store_conversations
        THEN ConvRaise(s, 404) /\ UNCHANGED clock
        ELSE LET conversation == RowToConversation(store_conversations[id])
             IN /\ GotoNow(s, "ucv_update",
                           [data |-> [active_characters |->
                                        Append(conversation.active_characters, character_data)],
                            now |-> clock])
                /\ clock' = clock + 1
  /\ UNCHANGED <<stores, caches, next_uuid, bg>>

\* conversation = await self.get_conversation(...), and what follows up to
\* the next await (lines 1056-1063, 998-1013).
Acc_get(s) ==
  /\ At(s, "add_character_to_conversation", "acc_get")
  /\ LET id == calls[s].arg.conversation_id
         character_data == calls[s].arg.character_data
     IN IF id \notin DOMAIN store_conversations
        THEN ConvRaise(s, 404) /\ UNCHANGED clock
        ELSE LET conversation == RowToConversation(store_conversations[id])
                 character_ids == {conversation.active_characters[k].id :
                                     k \in DOMAIN conversation.active_characters}
             IN IF character_data.id \notin character_ids
                THEN /\ GotoNow(s, "ucv_update",
                                [data |-> [active_characters |->
                                             Append(conversation.active_characters, character_data)],
                                 now |-> clock])
                     /\ clock' = clock + 1
                ELSE Return(s, Ok(conversation)) /\ UNCHANGED clock
  /\ UNCHANGED <<stores, caches, next_uuid, bg>>

\* remove_character_from_conversation (lines 1069-1082)
Call_remove_character_from_conversation(s, conversation_id, character_id) ==
  /\ ~Running(s)
  /\ CanReadClock
  /\ StepTo(s, NewCall("remove_character_from_conversation", "rcc_get",
                       [conversation_id |-> conversation_id, character_id |-> character_id],
                       EmptyMap, TRUE))
  /\ UNCHANGED <<stores, caches, clock, next_uuid, bg>>

\* [c for c in conversation.active_characters if c.get("id") != character_id]
RECURSIVE WithoutCharacter(_, _)
WithoutCharacter(active_characters, character_id) ==
  IF active_characters = <<>> THEN <<>>
  ELSE (IF Head(active_characters).id # character_id THEN <<Head(active_characters)>> ELSE <<>>)
         \o WithoutCharacter(Tail(active_characters), character_id)

\* conversation = await self.get_conversation(...), and what follows up to
\* the next await (lines 1076-1078, 998-1013).
Rcc_get(s) ==
  /\ At(s, "remove_character_from_conversation", "rcc_get")
  /\ LET id == calls[s].arg.conversation_id
     IN IF id \notin DOMAIN store_conversations
        THEN ConvRaise(s, 404) /\ UNCHANGED clock
        ELSE LET conversation == RowToConversation(store_conversations[id])
             IN /\ GotoNow(s, "ucv_update",
                           [data |-> [active_characters |->
                                        WithoutCharacter(conversation.active_characters,
                                                         calls[s].arg.character_id)],
                            now |-> clock])
                /\ clock' = clock + 1
  /\ UNCHANGED <<stores, caches, next_uuid, bg>>

\* ---------------------------------------------- the kinds of error endings
CharacterRef == [id |-> "k1"]
ConversationUpdates == {EmptyMap, [title |-> "T"]}
\* The conversations a caller may name: those created, and one that never was.
ConversationIds == IssuedIds \cup {"c0"}

ErrCallStep(s) ==
  \/ Call_init_database(s)
  \/ \E data \in VoiceCreates : Call_create_voice(s, data)
  \/ Call_create_conversation(s, ConversationData)
  \/ \E id \in ConversationIds : Call_get_conversation(s, id)
  \/ \E id \in ConversationIds : \E data \in ConversationUpdates :
       Call_update_conversation(s, id, data)
  \/ \E id \in ConversationIds : Call_add_character_to_conversation(s, id, CharacterRef)
  \/ \E id \in ConversationIds : Call_remove_character_from_conversation(s, id, "k1")

ErrCoroutineStep(s) ==
  \/ Load_chars(s) \/ Load_cfill(s) \/ Load_voices(s) \/ Load_vfill(s)
  \/ Cv_insert(s) \/ Cv_cache(s)
  \/ Cvc_insert(s)
  \/ Gc_select(s)
  \/ Ucv_update(s) \/ Ucv_get(s)
  \/ Acc_get(s) \/ Rcc_get(s)

ErrNext == ErrCallStep(1) \/ ErrCoroutineStep(1)

\* One caller of the voice and conversation operations that can end in a
\* NotFound or a Validation error, over a new database or one with voices.
SpecErr == (InitEmpty \/ InitVoices) /\ [][ErrNext]_vars

\* The status of the NotFound (404) or Validation (400) error that the
\* operation in slot s detects in the state it started from; 0 if none.
Detected(s) ==
  LET c == calls[s]
  IN CASE c.op = "create_voice" ->
            IF StripStr(c.arg.voice) = "" THEN 400
            ELSE IF c.pre.loaded /\ StripStr(c.arg.voice) \in DOMAIN c.pre.vc THEN 400
            ELSE 0
       [] c.op = "update_conversation" ->
            IF ~Has(c.arg.data, "title") /\ ~Has(c.arg.data, "active_characters") THEN 400
            ELSE IF c.arg.conversation_id \notin DOMAIN c.pre.sconv THEN 404
            ELSE 0
       [] c.op \in {"get_conversation", "add_character_to_conversation",
                    "remove_character_from_conversation"} ->
            IF c.arg.conversation_id \notin DOMAIN c.pre.sconv THEN 404 ELSE 0
       [] OTHER -> 0

Ended(s) == calls[s].op # "idle" /\ calls[s].pc = "done" /\ ~calls[s].ilv

\* C17: a NotFound or a Validation error detected inside a synchronous
\* operation reaches the caller as it is, never as a StorageFailure (500):
\* an empty or a duplicate name in create_voice is a 400, a conversation that
\* does not exist is a 404 in add_character_to_conversation and in
\* remove_character_from_conversation as in the other operations.
C17_ErrorKindKept ==
  \A s \in Slots : (Ended(s) /\ Detected(s) # 0) => calls[s].ret = Err(Detected(s))

\* What holds of C17: the operations that re-raise HTTPException keep the
\* kind; the others turn each NotFound and Validation error into a 500.
C17_ErrorKindWhereReraised ==
  \A s \in Slots :
    (Ended(s) /\ Detected(s) # 0) =>
       calls[s].ret = IF calls[s].op \in {"get_conversation", "update_conversation"}
                      THEN Err(Detected(s))
                      ELSE Err(500)

\* update_conversation of a conversation that does not exist: 404.
C17_Witness ==
  \E s \in Slots :
    /\ Ended(s)
    /\ calls[s].op = "update_conversation"
    /\ calls[s].ret = Err(404)

\* create_voice has returned in slot s, called with a name the store held.
DuplicateCreate(s) ==
  /\ calls[s].op = "create_voice" /\ calls[s].pc = "done" /\ ~calls[s].ilv
  /\ StripStr(calls[s].arg.voice) \in DOMAIN calls[s].pre.sv

\* C18: create_voice with a name the store holds is rejected as a Validation
\* error (400) in every state, the caches warmed or not and the voice cached
\* or not, and the stored voice and both caches are as they were.
C18_DuplicateIsValidationError ==
  \A s \in Slots :
    DuplicateCreate(s) =>
       /\ calls[s].ret = Err(400)
       /\ StoresAsBefore(s)
       /\ CachesAsBefore(s)

\* What holds of C18: the call is rejected, as a 500, and nothing is changed.
C18_DuplicateChangesNothing ==
  \A s \in Slots :
    DuplicateCreate(s) =>
       /\ calls[s].ret = Err(500)
       /\ StoresAsBefore(s)
       /\ CachesAsBefore(s)

\* A duplicate create_voice after clear_voice_cache on warmed caches: the
\* INSERT was tried and refused.
C18_Witness ==
  \E s \in Slots :
    /\ DuplicateCreate(s)
    /\ calls[s].pre.loaded
    /\ StripStr(calls[s].arg.voice) \notin DOMAIN calls[s].pre.vc
    /\ calls[s].ret.kind = "err"

\* ------------------------------------------------ updates with no field
NfCallStep(s) ==
  \/ Call_init_database(s)
  \/ Call_clear_voice_cache(s)
  \/ TaskBudget /\ Call_update_cached_audio_tokens(s, "aria", "t1")
  \/ Call_create_conversation(s, ConversationData)
  \/ Call_update_character(s, Robot001, EmptyMap)
  \/ Call_update_voice(s, "aria", EmptyMap)
  \/ \E id \in ConversationIds : Call_update_conversation(s, id, EmptyMap)

NfCoroutineStep(s) ==
  \/ Load_chars(s) \/ Load_cfill(s) \/ Load_voices(s) \/ Load_vfill(s)
  \/ Cvc_insert(s)
  \/ Uc_get(s)
  \/ Uv_get(s) \/ Uv_fill(s)

NfNext ==
  \/ NfCallStep(1)
  \/ NfCoroutineStep(1)
  \/ \E i \in DOMAIN bg : Pa_commit(i)

\* One caller of the three updates, each with no field given, over a
\* database that holds characters and voices.
SpecNoField == InitOver(SeedCharacters, SeedVoices) /\ [][NfNext]_vars

\* An update with no field has returned in slot s, and the entity it names
\* was in the store.
NoFieldUpdate(s) ==
  /\ Ended(s)
  /\ calls[s].op \in {"update_character", "update_voice", "update_conversation"}
  /\ DOMAIN calls[s].arg.data = {}
  /\ CASE calls[s].op = "update_character" -> calls[s].arg.id \in DOMAIN calls[s].pre.sc
       [] calls[s].op = "update_voice" -> calls[s].arg.voice_name \in DOMAIN calls[s].pre.sv
       [] OTHER -> calls[s].arg.conversation_id \in DOMAIN calls[s].pre.sconv

\* C19: update_character, update_voice and update_conversation of an entity
\* that exists, with no field to update, fail with a Validation error (400)
\* and leave the store and both caches exactly as they were.
C19_NoFieldChangesNothing ==
  \A s \in Slots :
    NoFieldUpdate(s) =>
       /\ calls[s].ret = Err(400)
       /\ StoresAsBefore(s)
       /\ CachesAsBefore(s)

\* What holds of C19: the 400, the store and the character cache as they
\* were; and the voice cache as it was but for the entry of the voice named,
\* which update_voice sets to the stored row when its lookup missed the cache.
C19_NoFieldKeepsStore ==
  \A s \in Slots :
    NoFieldUpdate(s) =>
       /\ calls[s].ret = Err(400)
       /\ StoresAsBefore(s)
       /\ character_cache = calls[s].pre.cc
       /\ cache_loaded = calls[s].pre.loaded
       /\ IF /\ calls[s].op = "update_voice"
             /\ ~(calls[s].pre.loaded /\ calls[s].arg.voice_name \in DOMAIN calls[s].pre.vc)
          THEN voice_cache =
                 Put(calls[s].pre.vc, calls[s].arg.voice_name,
                     VoiceCacheEntry(RowToVoice(store_voices[calls[s].arg.voice_name])))
          ELSE voice_cache = calls[s].pre.vc

\* An update_conversation with no field, of a conversation that exists.
C19_Witness ==
  \E s \in Slots :
    /\ NoFieldUpdate(s)
    /\ calls[s].op = "update_conversation"
    /\ calls[s].ret = Err(400)

\* --------------------------------------------------- get_recent_messages
RECURSIVE Reverse(_)
Reverse(q) == IF q = <<>> THEN <<>> ELSE Append(Reverse(Tail(q)), Head(q))

\* LIMIT ? alone (line 1278)
Limit(q, n) == SubSeq(q, 1, IF n < Len(q) THEN n ELSE Len(q))

\* get_recent_messages (lines 1271-1290)
Call_get_recent_messages(s, conversation_id, n) ==
  /\ ~Running(s)
  /\ StepTo(s, NewCall("get_recent_messages", "grm_select",
                       [conversation_id |-> conversation_id, n |-> n], EmptyMap, FALSE))
  /\ UNCHANGED <<stores, caches, clock, next_uuid, bg>>

\* A faulty get_recent_messages: the rows are returned as selected, newest first.
Grm_select_NewestFirst(s) ==
  /\ At(s, "get_recent_messages", "grm_select")
  /\ \E q \in OrderedByCreatedAt(store_messages,
                                 MessagesOf(store_messages, calls[s].arg.conversation_id)) :
       LET rows == Limit(Reverse(q), calls[s].arg.n)
       IN Return(s, Ok([i \in DOMAIN rows |-> RowToMessage(store_messages[rows[i]])]))
  /\ UNCHANGED <<stores, caches, clock, next_uuid, bg>>

\* SELECT * FROM messages WHERE conversation_id = ? ORDER BY created_at DESC
\* LIMIT ?, then reversed(rows) (lines 1276-1284).  A descending order is an
\* ascending one read backwards.
Grm_select(s) ==
  /\ At(s, "get_recent_messages", "grm_select")
  /\ \E q \in OrderedByCreatedAt(store_messages,
                                 MessagesOf(store_messages, calls[s].arg.conversation_id)) :
       LET rows == Limit(Reverse(q), calls[s].arg.n)
           messages == Reverse(rows)
       IN Return(s, Ok([i \in DOMAIN messages |-> RowToMessage(store_messages[messages[i]])]))
  /\ UNCHANGED <<stores, caches, clock, next_uuid, bg>>

\* One caller that writes messages one after the other into two conversations
\* and reads one of them.
RdCallStep(s) ==
  \/ \E c \in {"c1", "c2"} : Call_create_message(s, [MessageData EXCEPT !.conversation_id = c])
  \/ Call_get_messages(s, "c1", NoLimit, 0)
  \/ \E n \in 0..MaxClock : Call_get_recent_messages(s, "c1", n)

RdCoroutineStep(s) == Cmsg_insert(s) \/ Gm_select(s) \/ Grm_select(s)

RdNext == RdCallStep(1) \/ RdCoroutineStep(1)

SpecRead == InitEmpty /\ [][RdNext]_vars

\* The messages of the conversation have created_at all different.
DistinctCreatedAt(conversation_id) ==
  \A a, b \in MessagesOf(store_messages, conversation_id) :
    a # b => store_messages[a].created_at # store_messages[b].created_at

\* The messages of the conversation, oldest first.
Chronological(conversation_id) ==
  LET q == CHOOSE q \in OrderedByCreatedAt(store_messages,
                                          MessagesOf(store_messages, conversation_id)) : TRUE
  IN [i \in DOMAIN q |-> RowToMessage(store_messages[q[i]])]

\* C20: for a conversation whose messages have strictly increasing
\* created_at, get_messages returns all of them, oldest first, and
\* get_recent_messages(n) returns exactly the last min(n, count) of them,
\* oldest first.
C20_ChronologicalReads ==
  \A s \in Slots :
    LET all == Chronological(calls[s].arg.conversation_id)
        count == Len(all)
    IN /\ (/\ Ended(s) /\ calls[s].op = "get_messages"
           /\ DistinctCreatedAt(calls[s].arg.conversation_id)) =>
              calls[s].ret = Ok(all)
       /\ (/\ Ended(s) /\ calls[s].op = "get_recent_messages"
           /\ DistinctCreatedAt(calls[s].arg.conversation_id)) =>
              LET n == calls[s].arg.n
                  k == IF n < count THEN n ELSE count
              IN calls[s].ret = Ok(SubSeq(all, count - k + 1, count))

\* The last two of three messages of a conversation, returned oldest first.
C20_Witness ==
  \E s \in Slots :
    /\ Ended(s) /\ calls[s].op = "get_recent_messages"
    /\ Cardinality(MessagesOf(store_messages, "c1")) = 3
    /\ Len(calls[s].ret.val) = 2
    /\ calls[s].ret.val[1].created_at < calls[s].ret.val[2].created_at

\* ---------------------------------------------------- delete_conversation
\* delete_conversation (lines 1084-1105) up to its DELETE: the connection and
\* PRAGMA foreign_keys = ON.
Call_delete_conversation(s, conversation_id) ==
  /\ ~Running(s)
  /\ StepTo(s, NewCall("delete_conversation", "dcv_delete",
                       [conversation_id |-> conversation_id], EmptyMap, FALSE))
  /\ UNCHANGED <<stores, caches, clock, next_uuid, bg>>

\* The messages table less the rows of a conversation: ON DELETE CASCADE
\* (line 71), in force on a connection that has turned foreign keys on.
CascadeMessages(sm, conversation_id) ==
  [m \in (DOMAIN sm) \ MessagesOf(sm, conversation_id) |-> sm[m]]

\* A faulty delete_conversation: foreign keys are off and nothing cascades.
Dcv_delete_NoCascade(s) ==
  /\ At(s, "delete_conversation", "dcv_delete")
  /\ LET id == calls[s].arg.conversation_id
     IN IF id \in DOMAIN store_conversations
        THEN /\ store_conversations' = Drop(store_conversations, id)
             /\ Return(s, Ok(TRUE))
        ELSE /\ UNCHANGED store_conversations
             /\ Return(s, Err(404))
  /\ UNCHANGED <<store_characters, store_voices, store_messages, caches, clock, next_uuid, bg>>

\* DELETE FROM conversations WHERE conversation_id = ?; commit; rowcount
\* (lines 1089-1099).  The cascade is part of the DELETE's transaction.
Dcv_delete(s) ==
  /\ At(s, "delete_conversation", "dcv_delete")
  /\ LET id == calls[s].arg.conversation_id
     IN IF id \in DOMAIN store_conversations
        THEN /\ store_conversations' = Drop(store_conversations, id)
             /\ store_messages' = CascadeMessages(store_messages, id)
             /\ Return(s, Ok(TRUE))
        ELSE /\ UNCHANGED <<store_conversations, store_messages>>
             /\ Return(s, Err(404))
  /\ UNCHANGED <<store_characters, store_voices, caches, clock, next_uuid, bg>>

\* The conversation a message may name: one that is stored, or one that never was.
MessageFor(conversation_id) == [MessageData EXCEPT !.conversation_id = conversation_id]

DcCallStep(s) ==
  \/ Call_create_conversation(s, ConversationData)
  \/ \E c \in (DOMAIN store_conversations) \cup {"c0"} : Call_create_message(s, MessageFor(c))
  \/ \E c \in ConversationIds : Call_delete_conversation(s, c)

DcCoroutineStep(s) == Cvc_insert(s) \/ Cmsg_insert(s) \/ Dcv_delete(s)

DcNext == DcCallStep(1) \/ DcCoroutineStep(1)

\* One caller that creates conversations and messages and deletes conversations.
SpecDeleteConversation == InitEmpty /\ [][DcNext]_vars

\* C21: delete_conversation(c) of a conversation that exists removes it and,
\* in the same commit, every message of c, and leaves the messages of other
\* conversations and everything else as they were; of a conversation that
\* does not exist it fails with NotFound (404) and changes nothing.
C21_DeleteConversationCascades ==
  /\ [](\A s \in Slots :
          (Ended(s) /\ calls[s].op = "delete_conversation") =>
             LET c == calls[s].arg.conversation_id
             IN IF c \in DOMAIN calls[s].pre.sconv
                THEN /\ calls[s].ret = Ok(TRUE)
                     /\ store_conversations = Drop(calls[s].pre.sconv, c)
                     /\ store_messages = CascadeMessages(calls[s].pre.sm, c)
                     /\ MessagesOf(store_messages, c) = {}
                     /\ \A m \in DOMAIN calls[s].pre.sm :
                          calls[s].pre.sm[m].conversation_id # c =>
                             m \in DOMAIN store_messages /\ store_messages[m] = calls[s].pre.sm[m]
                     /\ store_characters = calls[s].pre.sc /\ store_voices = calls[s].pre.sv
                     /\ CachesAsBefore(s)
                ELSE /\ calls[s].ret = Err(404)
                     /\ StoresAsBefore(s)
                     /\ CachesAsBefore(s))
  /\ [][\A c \in DOMAIN store_conversations :
          c \notin DOMAIN store_conversations' => MessagesOf(store_messages', c) = {}]_vars

\* A conversation deleted with a message of its own, a message of another
\* conversation staying.
C21_Witness ==
  \E s \in Slots :
    /\ Ended(s) /\ calls[s].op = "delete_conversation"
    /\ calls[s].ret = Ok(TRUE)
    /\ MessagesOf(calls[s].pre.sm, calls[s].arg.conversation_id) # {}
    /\ store_messages # EmptyMap

\* ------------------------------------------------------- cache refresh
\* refresh_character_cache (lines 569-579): the cache is cleared before the
\* first await, then SELECT * FROM characters refills it.
Call_refresh_character_cache(s) ==
  /\ ~Running(s)
  /\ character_cache' = EmptyMap
  /\ StepTo(s, NewCall("refresh_character_cache", "rc_select", EmptyMap, EmptyMap, FALSE))
  /\ UNCHANGED <<stores, voice_cache, cache_loaded, clock, next_uuid, bg>>

\* SELECT * FROM characters
Rc_select(s) ==
  /\ At(s, "refresh_character_cache", "rc_select")
  /\ Goto(s, "rc_fill", [rows |-> store_characters])
  /\ UNCHANGED <<stores, caches, clock, next_uuid, bg>>

\* for row in rows: self._character_cache[character.id] = character
Rc_fill(s) ==
  /\ At(s, "refresh_character_cache", "rc_fill")
  /\ LET rows == calls[s].loc.rows
     IN character_cache' =
          [id \in (DOMAIN character_cache) \cup (DOMAIN rows) |->
             IF id \in DOMAIN rows THEN RowToCharacter(rows[id]) ELSE character_cache[id]]
  /\ Return(s, Ok(None))
  /\ UNCHANGED <<stores, voice_cache, cache_loaded, clock, next_uuid, bg>>

\* refresh_voice_cache without its clear(): the rows are loaded over what the
\* cache holds.
Call_refresh_voice_cache_NoClear(s) ==
  /\ ~Running(s)
  /\ StepTo(s, NewCall("refresh_voice_cache", "rv_select", EmptyMap, EmptyMap, FALSE))
  /\ UNCHANGED <<stores, caches, clock, next_uuid, bg>>

\* refresh_voice_cache (lines 852-865): the cache is cleared before the first
\* await, then SELECT * FROM voices refills it.
Call_refresh_voice_cache(s) ==
  /\ ~Running(s)
  /\ voice_cache' = EmptyMap
  /\ StepTo(s, NewCall("refresh_voice_cache", "rv_select", EmptyMap, EmptyMap, FALSE))
  /\ UNCHANGED <<stores, character_cache, cache_loaded, clock, next_uuid, bg>>

\* SELECT * FROM voices
Rv_select(s) ==
  /\ At(s, "refresh_voice_cache", "rv_select")
  /\ Goto(s, "rv_fill", [rows |-> store_voices])
  /\ UNCHANGED <<stores, caches, clock, next_uuid, bg>>

\* for row in rows: self._voice_cache[voice.voice] = {"config": ..., ...}
Rv_fill(s) ==
  /\ At(s, "refresh_voice_cache", "rv_fill")
  /\ LET rows == calls[s].loc.rows
     IN voice_cache' =
          [v \in (DOMAIN voice_cache) \cup (DOMAIN rows) |->
             IF v \in DOMAIN rows THEN VoiceCacheEntry(RowToVoice(rows[v])) ELSE voice_cache[v]]
  /\ Return(s, Ok(None))
  /\ UNCHANGED <<stores, character_cache, cache_loaded, clock, next_uuid, bg>>

\* One caller loads and refreshes the caches and deletes a voice; a second
\* caller looks the voice up meanwhile.
RfCallStep(s) ==
  \/ /\ s = 1
     /\ \/ Call_init_database(s)
        \/ Call_refresh_character_cache(s)
        \/ Call_refresh_voice_cache(s)
        \/ Call_delete_voice(s, "aria")
  \/ s = 2 /\ Call_get_voice(s, "aria")

RfCoroutineStep(s) ==
  \/ Load_chars(s) \/ Load_cfill(s) \/ Load_voices(s) \/ Load_vfill(s)
  \/ Rc_select(s) \/ Rc_fill(s)
  \/ Rv_select(s) \/ Rv_fill(s)
  \/ Dv_get(s) \/ Dv_fill(s) \/ Dv_commit(s) \/ Dv_cache(s)
  \/ Gv_select(s) \/ Gv_fill(s)

RfNext ==
  \/ \E s \in Slots : RfCallStep(s)
  \/ \E s \in Slots : RfCoroutineStep(s)

SpecRefresh == InitOver(SeedCharacters, SeedVoices) /\ [][RfNext]_vars

CharactersOfStore == [id \in DOMAIN store_characters |-> RowToCharacter(store_characters[id])]
VoicesOfStore == [v \in DOMAIN store_voices |-> VoiceCacheEntry(RowToVoice(store_voices[v]))]

\* What a load over a cache that is not cleared leaves: the rows of the
\* store, and under every other key what the cache held before.
LoadedOver(before, loaded) ==
  [k \in (DOMAIN before) \cup (DOMAIN loaded) |->
     IF k \in DOMAIN loaded THEN loaded[k] ELSE before[k]]

StoredOrNot == (DOMAIN store_conversations) \cup {"c0"}

\* The conversation and message operations of one caller.
UcCallStep(s) ==
  \/ TaskBudget /\ Call_create_conversation(s, ConversationData)
  \/ TaskBudget /\ Call_create_conversation_background(s, ConversationData)
  \/ \E id \in StoredOrNot : Call_get_conversation(s, id)
  \/ \E id \in StoredOrNot : TaskBudget /\ Call_update_conversation(s, id, [title |-> "T"])
  \/ \E id \in StoredOrNot : Call_delete_conversation(s, id)
  \/ \E id \in StoredOrNot : TaskBudget /\ Call_create_message(s, MessageFor(id))
  \/ \E id \in StoredOrNot :
       TaskBudget /\ Call_create_message_background(s, MessageFor(id))
  \/ \E id \in StoredOrNot : Call_get_messages(s, id, NoLimit, 0)
  \/ \E id \in StoredOrNot : Call_get_recent_messages(s, id, MaxClock)
  \/ \E id \in DOMAIN store_messages : Call_delete_message(s, id)

UcCoroutineStep(s) ==
  \/ Cvc_insert(s)
  \/ Gc_select(s)
  \/ Ucv_update(s) \/ Ucv_get(s)
  \/ Dcv_delete(s)
  \/ Cmsg_insert(s)
  \/ Gm_select(s) \/ Grm_select(s)
  \/ Dm_delete(s)

UcTaskStep == \E i \in DOMAIN bg : Cm_start(i) \/ Cm_insert(i) \/ Cvb_start(i) \/ Cvb_insert(i)

\* The warm-load, which does write the caches.
UcLoadStep(s) ==
  \/ Call_init_database(s)
  \/ Load_chars(s) \/ Load_cfill(s) \/ Load_voices(s) \/ Load_vfill(s)

UcNext ==
  \/ UcCallStep(1) \/ UcCoroutineStep(1)
  \/ UcTaskStep
  \/ UcLoadStep(1)

\* One caller that warm-loads the caches and runs the conversation and
\* message operations, with the tasks it detaches.
SpecUncached == InitOver(SeedCharacters, SeedVoices) /\ [][UcNext]_vars

\* The result of reading conversation id from the store as it is.
ConversationOfStore(conversation_id) ==
  IF conversation_id \in DOMAIN store_conversations
  THEN Ok(RowToConversation(store_conversations[conversation_id]))
  ELSE Err(404)

\* C23: no step of a conversation or message operation (create, background
\* create with its detached task, read, update, delete) changes the
\* character cache, the voice cache or the cache-loaded flag; and a read that
\* has returned with nothing else having run meanwhile returned what the store
\* holds: the stored conversation or NotFound, the stored messages of the
\* conversation in created_at order.
C23_NeverCached ==
  /\ [][(UcCallStep(1) \/ UcCoroutineStep(1) \/ UcTaskStep) => UNCHANGED caches]_vars
  /\ [](\A s \in Slots :
          Ended(s) =>
            /\ calls[s].op = "get_conversation" =>
                 calls[s].ret = ConversationOfStore(calls[s].arg.conversation_id)
            /\ calls[s].op = "get_messages" => ReadInOrder(s)
            /\ calls[s].op = "get_recent_messages" =>
                 calls[s].ret = Ok(Chronological(calls[s].arg.conversation_id)))

\* With the caches warm, a message has been created and then a read has
\* returned it from the store.
C23_Witness ==
  \E s \in Slots :
    /\ Ended(s)
    /\ calls[s].op = "get_messages"
    /\ calls[s].ret.val # <<>>
    /\ cache_loaded
    /\ character_cache # EmptyMap

\* -------------------------------------------------- names without a slug
DashBang == <<"-"," ","!">>
Character001 == <<"c","h","a","r","a","c","t","e","r","-","0","0","1">>
Character002 == <<"c","h","a","r","a","c","t","e","r","-","0","0","2">>

EsCallStep(s) ==
  \E name \in {Bangs, DashBang, Robot} : Call_create_character(s, NamedCreate(name))

EsCoroutineStep(s) == Cc_genid(s) \/ Cc_insert(s) \/ Cc_cache(s)

EsNext == EsCallStep(1) \/ EsCoroutineStep(1)

\* One caller creating characters, some under names that leave no slug.
SpecEmptySlug == Init /\ [][EsNext]_vars

\* C24: a name of which nothing is left as a slug (only punctuation, hyphens
\* and blanks) is given the slug "character": the first such creation is
\* assigned character-001 and, nothing being deleted, the one made over k
\* stored character-NNN ids is assigned character-(k+1), which it returns.
C24_EmptySlugIsCharacter ==
  \A s \in Slots :
    (Allocated(s) /\ ~calls[s].ilv /\ calls[s].arg.name \in {Bangs, DashBang}) =>
      LET character == ExpectedSlug(Bangs)
          have == {id \in DOMAIN calls[s].pre.sc : IsPrefix(character \o <<"-">>, id)}
          id == calls[s].loc.character_id
      IN /\ id = character \o <<"-">> \o ThreeDigits(Cardinality(have) + 1)
         /\ have = {} => id = Character001
         /\ have = {Character001} => id = Character002
         /\ calls[s].pc = "done" => calls[s].ret.kind = "ok" /\ calls[s].ret.val.id = id

\* "!!!" created after "- !" and given character-002.
C24_Witness ==
  \E s \in Slots :
    /\ Allocated(s)
    /\ ReturnedOk(s)
    /\ calls[s].arg.name = Bangs
    /\ Character001 \in DOMAIN calls[s].pre.sc
    /\ store_characters[Character001].name = DashBang
    /\ calls[s].ret.val.id = Character002

\* ------------------------------------------- creations racing to one id
CrNext ==
  \E s \in Slots :
    \/ \E data \in CharacterCreates \cup {NamedCreate(Robot)} : Call_create_character(s, data)
    \/ Cc_genid(s) \/ Cc_insert(s) \/ Cc_cache(s)

\* Two callers creating characters of one slug with different fields, in any
\* interleaving.
SpecCreateRace == Init /\ [][CrNext]_vars

\* Calls s and t have both returned, having been given the same id.
RacedToOneId(s, t) ==
  /\ s # t
  /\ Allocated(s) /\ Allocated(t)
  /\ calls[s].pc = "done" /\ calls[t].pc = "done"
  /\ calls[s].loc.character_id = calls[t].loc.character_id

\* C25: of two create_character calls given the same id, exactly one
\* succeeds and the other ends with a storage error (500); the step in which
\* the insert is rejected leaves the caches as they are; and once both have
\* returned, the row stored under the id and the entry cached under it are
\* the record the successful call returned.
C25_OneWinner ==
  /\ [](\A s, t \in Slots :
          (RacedToOneId(s, t) /\ calls[s].ret.kind = "ok") =>
            LET id == calls[s].loc.character_id
            IN /\ calls[t].ret = Err(500)
               /\ id \in DOMAIN store_characters
               /\ RowToCharacter(store_characters[id]) = calls[s].ret.val
               /\ id \in DOMAIN character_cache
               /\ character_cache[id] = calls[s].ret.val)
  /\ [](\A s, t \in Slots :
          RacedToOneId(s, t) => calls[s].ret.kind = "ok" \/ calls[t].ret.kind = "ok")
  /\ [][\A s \in Slots :
          (/\ At(s, "create_character", "cc_insert")
           /\ calls'[s].pc = "done") =>
             /\ calls'[s].ret = Err(500)
             /\ UNCHANGED <<stores, caches>>]_vars

\* Two creations with different fields were given one id; both have returned,
\* one with the character and the other with an error.
C25_Witness ==
  \E s, t \in Slots :
    /\ RacedToOneId(s, t)
    /\ calls[s].arg # calls[t].arg
    /\ calls[s].ret.kind = "ok"
    /\ calls[t].ret = Err(500)

\* --------------------------------------------- overlapping character updates
UrNext ==
  \E s \in Slots :
    \/ s = 1 /\ Call_init_database(s)
    \/ \E data \in {[name |-> RobotArm], [voice |-> "nova"]} :
         Call_update_character(s, Robot001, data)
    \/ Load_chars(s) \/ Load_cfill(s) \/ Load_voices(s) \/ Load_vfill(s)
    \/ Uc_get(s) \/ Uc_update(s) \/ Uc_readback(s) \/ Uc_cache(s)

\* Two callers updating one character, in any interleaving, before or after
\* the warm-load.
SpecUpdateRace == InitOver(SeedCharacters, SeedVoices) /\ [][UrNext]_vars

\* Calls s and t are update_character calls on one id that have both
\* returned the character.
BothUpdated(s, t) ==
  /\ s # t
  /\ calls[s].op = "update_character" /\ calls[t].op = "update_character"
  /\ calls[s].arg.id = calls[t].arg.id
  /\ calls[s].pc = "done" /\ calls[t].pc = "done"
  /\ calls[s].ret.kind = "ok" /\ calls[t].ret.kind = "ok"

\* C26 as stated: once two update_character calls on one id have both
\* returned, the cached character is the stored row, field for field.
C26_UpdatesConverge ==
  \A s, t \in Slots :
    BothUpdated(s, t) =>
      LET id == calls[s].arg.id
      IN /\ id \in DOMAIN character_cache
         /\ character_cache[id] = RowToCharacter(store_characters[id])

\* What holds of two update_character calls on one id that have both
\* returned: the cached character is the one that one of them returned, and
\* the stored row is the one that one of them read back.
C26_CacheIsOneReadBack ==
  \A s, t \in Slots :
    BothUpdated(s, t) =>
      LET id == calls[s].arg.id
      IN /\ id \in DOMAIN character_cache
         /\ character_cache[id] \in {calls[s].ret.val, calls[t].ret.val}
         /\ RowToCharacter(store_characters[id]) \in {calls[s].ret.val, calls[t].ret.val}

\* Both updates have returned and the cache holds the character as it was
\* between the two commits.
C26_Witness ==
  \E s, t \in Slots :
    /\ BothUpdated(s, t)
    /\ bg = <<>>
    /\ character_cache[calls[s].arg.id] # RowToCharacter(store_characters[calls[s].arg.id])

\* ------------------------------------- a rename overlapping character writes
\* The state after init_database over database db has returned (lines
\* 200-232): the caches hold the rows of the store.
InitWarmed(characters, voices) ==
  /\ store_characters = characters
  /\ store_voices = voices
  /\ store_conversations = EmptyMap
  /\ store_messages = EmptyMap
  /\ character_cache = [id \in DOMAIN characters |-> RowToCharacter(characters[id])]
  /\ voice_cache = [v \in DOMAIN voices |-> VoiceCacheEntry(RowToVoice(voices[v]))]
  /\ cache_loaded = TRUE
  /\ clock = 1
  /\ next_uuid = 0
  /\ calls = [s \in Slots |-> IdleCall]
  /\ bg = <<>>

RnCallStep(s) ==
  \/ s = 1 /\ Call_update_voice(s, "aria", [new_voice |-> "zed"])
  \/ s = 2 /\ \E data \in CharacterCreates : Call_create_character(s, data)
  \/ s = 2 /\ Call_update_character(s, Robot002, [voice |-> "aria"])

RnCoroutineStep(s) ==
  \/ Uv_get(s) \/ Uv_check(s) \/ Uv_commit(s) \/ Uv_readback(s) \/ Uv_cache(s)
  \/ Cc_genid(s) \/ Cc_insert(s) \/ Cc_cache(s)
  \/ Uc_update(s) \/ Uc_readback(s) \/ Uc_cache(s)

RnNext == \E s \in Slots : RnCallStep(s) \/ RnCoroutineStep(s)

\* On a warmed director, one caller renames voice aria to zed while another
\* creates a character of voice aria or sets a character's voice to aria.
SpecRenameRace == InitWarmed(SeedCharacters, SeedVoices) /\ [][RnNext]_vars

\* The rename in slot 1 and the character write in slot 2 have both
\* returned what they were to return.
RenameAndWriteDone ==
  /\ calls[1].op = "update_voice" /\ calls[1].pc = "done" /\ calls[1].ret.kind = "ok"
  /\ calls[2].op \in {"create_character", "update_character"}
  /\ calls[2].pc = "done" /\ calls[2].ret.kind = "ok"

\* C27 as stated: once a rename of a voice and a character write that sets
\* the old name have both returned, every character's cached voice is its
\* stored voice.
C27_RenameRaceConverges ==
  RenameAndWriteDone =>
    /\ DOMAIN character_cache = DOMAIN store_characters
    /\ \A id \in DOMAIN store_characters :
         character_cache[id].voice = store_characters[id].voice

\* What holds once both have returned: the store and the cache hold the same
\* characters, and a character whose cached voice is not its stored voice
\* has the old name on one side and the new name on the other.
C27_OldOrNewName ==
  RenameAndWriteDone =>
    /\ DOMAIN character_cache = DOMAIN store_characters
    /\ \A id \in DOMAIN store_characters :
         \/ character_cache[id].voice = store_characters[id].voice
         \/ {character_cache[id].voice, store_characters[id].voice} = {"aria", "zed"}

\* Both have returned and a character is cached with the old name while the
\* store has it under the new one.
C27_Witness ==
  /\ RenameAndWriteDone
  /\ \E id \in DOMAIN store_characters :
       character_cache[id].voice = "aria" /\ store_characters[id].voice = "zed"

\* ----------------------------- a background message and delete_conversation
OrCallStep(s) ==
  \/ Call_create_conversation(s, ConversationData)
  \/ \E id \in DOMAIN store_conversations :
       TaskBudget /\ Call_create_message_background(s, MessageFor(id))
  \/ \E id \in DOMAIN store_conversations : Call_delete_conversation(s, id)

OrCoroutineStep(s) == Cvc_insert(s) \/ Dcv_delete(s)

OrTaskStep == \E i \in DOMAIN bg : Cm_start(i) \/ Cm_insert(i)

OrNext == OrCallStep(1) \/ OrCoroutineStep(1) \/ OrTaskStep

\* One caller creates conversations, creates messages in the background for
\* conversations the store holds, and deletes conversations.
SpecOrphan == InitEmpty /\ [][OrNext]_vars

\* C28 as stated: whenever no background task is pending, every stored
\* message belongs to a stored conversation.
C28_NoOrphanMessage ==
  bg = <<>> =>
    \A m \in DOMAIN store_messages :
      store_messages[m].conversation_id \in DOMAIN store_conversations

\* What holds: every stored message belongs to a conversation that has been
\* created, stored still or deleted since; and the step that deletes a
\* conversation leaves no message of it in the store.
C28_ConversationOnceStored ==
  /\ [](\A m \in DOMAIN store_messages : store_messages[m].conversation_id \in IssuedIds)
  /\ [][\A c \in DOMAIN store_conversations :
          c \notin DOMAIN store_conversations' => MessagesOf(store_messages', c) = {}]_vars

\* No task is pending, nothing is running, and the store holds a message of
\* a conversation that was deleted while the insert was pending.
C28_Witness ==
  /\ bg = <<>>
  /\ ~Running(1)
  /\ calls[1].op = "delete_conversation" /\ calls[1].ret = Ok(TRUE)
  /\ \E m \in DOMAIN store_messages :
       /\ store_messages[m].conversation_id = calls[1].arg.conversation_id
       /\ store_messages[m].conversation_id \notin DOMAIN store_conversations

\* ------------------------------------------------ the last three-digit id
Robot999 == <<"r","o","b","o","t","-","9","9","9">>
Robot1000 == <<"r","o","b","o","t","-","1","0","0","0">>

\* A database in which the ids of slug robot have reached robot-999.
InitAt999 ==
  \/ InitOver([id \in {Robot999} |-> SeedCharacterRow(id, "")], NoVoices)
  \/ InitOver([id \in {Robot001, Robot999} |-> SeedCharacterRow(id, "")], NoVoices)

UbCallStep(s) ==
  \E name \in {Robot, RobotArm, Bangs} : Call_create_character(s, NamedCreate(name))

UbCoroutineStep(s) == Cc_genid(s) \/ Cc_insert(s) \/ Cc_cache(s)

UbNext == UbCallStep(1) \/ UbCoroutineStep(1)

\* One caller creating characters over a store that holds robot-999.
SpecUpperBound == InitAt999 /\ [][UbNext]_vars

\* Id is slug-NNN, NNN three decimal digits.
ThreeDigitForm(slug, id) ==
  /\ Len(id) = Len(slug) + 4
  /\ SubSeq(id, 1, Len(slug) + 1) = slug \o <<"-">>
  /\ \A i \in (Len(slug) + 2)..Len(id) : id[i] \in Digits

\* C29 as stated: every id create_character allocates is slug-NNN with
\* exactly three digits and is the id of no stored character, also when
\* slug-999 is stored.
C29_ThreeDigitsAlwaysFresh ==
  \A s \in Slots :
    (Allocated(s) /\ ~calls[s].ilv) =>
      /\ ThreeDigitForm(ExpectedSlug(calls[s].arg.name), calls[s].loc.character_id)
      /\ calls[s].loc.character_id \notin DOMAIN calls[s].pre.sc

\* What holds: while the highest stored suffix of the slug is below 999 the
\* id allocated is slug-NNN with three digits and is not stored; once
\* slug-999 is stored the id allocated is slug-1000, with four digits, and a
\* creation that finds slug-1000 stored ends with a storage error (500) and
\* the store as it was.
C29_ThreeDigitsBelow999 ==
  \A s \in Slots :
    (Allocated(s) /\ ~calls[s].ilv) =>
      LET slug == ExpectedSlug(calls[s].arg.name)
          ids == DOMAIN calls[s].pre.sc
          id == calls[s].loc.character_id
      IN IF HighestSuffix(slug, ids) < 999
         THEN ThreeDigitForm(slug, id) /\ id \notin ids
         ELSE /\ id = slug \o <<"-","1","0","0","0">>
              /\ (calls[s].pc = "done" /\ id \in ids) =>
                   calls[s].ret = Err(500) /\ StoresAsBefore(s)

\* Over robot-999 and robot-1000, a creation of Robot was given robot-1000
\* again and has failed.
C29_Witness ==
  \E s \in Slots :
    /\ Allocated(s) /\ ~calls[s].ilv
    /\ calls[s].arg.name = Robot
    /\ {Robot999, Robot1000} \subseteq DOMAIN calls[s].pre.sc
    /\ calls[s].loc.character_id = Robot1000
    /\ calls[s].ret = Err(500)

\* ------------------------------------------------ ids after a deletion
ReCallStep(s) ==
  \/ s = 1 /\ Call_create_character(s, NamedCreate(Robot))
  \/ s = 2 /\ \E id \in {Robot001, Robot002} : Call_delete_character(s, id)

ReCoroutineStep(s) ==
  \/ Cc_genid(s) \/ Cc_insert(s) \/ Cc_cache(s)
  \/ Dc_get(s) \/ Dc_delete(s) \/ Dc_cache(s)

ReNext == \E s \in Slots : ReCallStep(s) \/ ReCoroutineStep(s)

\* One caller creates characters named Robot, another deletes characters.
SpecReuse == Init /\ [][ReNext]_vars

\* Call t deleted a character that was stored, and call s, begun after that
\* and run with nothing else in between, has been given an id.
AllocatedAfterDelete(s, t) ==
  /\ Allocated(s) /\ ~calls[s].ilv
  /\ calls[t].op = "delete_character"
  /\ calls[t].pc = "done" /\ calls[t].ret = Ok(TRUE)
  /\ calls[t].arg.id \in DOMAIN calls[t].pre.sc
  /\ calls[t].arg.id \notin DOMAIN calls[s].pre.sc

\* C30 as stated: the id of a character that was deleted is never given to
\* a character created later.
C30_NoIdReassigned ==
  \A s, t \in Slots :
    AllocatedAfterDelete(s, t) => calls[s].loc.character_id # calls[t].arg.id

\* What holds: a creation is never given the id of a stored character, and
\* it is given the id of a deleted one only when that id is above every
\* suffix the store still holds for the slug.
C30_ReassignedOnlyAboveStored ==
  \A s, t \in Slots :
    AllocatedAfterDelete(s, t) =>
      LET id == calls[s].loc.character_id
          slug == ExpectedSlug(calls[s].arg.name)
      IN /\ id \notin DOMAIN calls[s].pre.sc
         /\ id = calls[t].arg.id =>
              SuffixMatch(slug, id) = HighestSuffix(slug, DOMAIN calls[s].pre.sc) + 1

\* robot-002, the highest id, was deleted, and the next character created
\* has been given robot-002 and stored under it.
C30_Witness ==
  \E s, t \in Slots :
    /\ AllocatedAfterDelete(s, t)
    /\ calls[t].arg.id = Robot002
    /\ DOMAIN calls[s].pre.sc = {Robot001}
    /\ calls[s].pc = "done" /\ calls[s].ret.kind = "ok"
    /\ calls[s].ret.val.id = Robot002
    /\ calls[s].ret.val # RowToCharacter(calls[t].pre.sc[Robot002])

\* ------------------------------- a deletion overlapping an update
DuCallStep(s) ==
  \/ s = 1 /\ Call_delete_character(s, Robot001)
  \/ s = 2 /\ \E data \in {[name |-> RobotArm]} : Call_update_character(s, Robot001, data)

DuCoroutineStep(s) ==
  \/ Dc_get(s) \/ Dc_delete(s) \/ Dc_cache(s)
  \/ Uc_get(s) \/ Uc_update(s) \/ Uc_readback(s) \/ Uc_cache(s)

DuNext == \E s \in Slots : DuCallStep(s) \/ DuCoroutineStep(s)

\* On a director warmed or not, one caller deletes a character while another
\* updates it.
SpecDeleteUpdate ==
  (InitOver(SeedCharacters, SeedVoices) \/ InitWarmed(SeedCharacters, SeedVoices))
    /\ [][DuNext]_vars

\* The delete_character in slot 1 and the update_character in slot 2, of one
\* id, have both ended.
DeleteAndUpdateEnded ==
  /\ calls[1].op = "delete_character" /\ calls[1].pc = "done"
  /\ calls[2].op = "update_character" /\ calls[2].pc = "done"
  /\ calls[1].arg.id = calls[2].arg.id

\* C31 as stated: once a delete_character and an update_character of one id
\* have both ended, the character cache has no entry for the id if the store
\* has no row for it.
C31_DeletedStaysOut ==
  DeleteAndUpdateEnded =>
    (calls[1].arg.id \notin DOMAIN store_characters =>
       calls[1].arg.id \notin DOMAIN character_cache)

\* What holds: a delete_character that has returned with nothing else having
\* run meanwhile has left neither the row nor a cached entry, and a row that
\* is gone never comes back; a cached entry for the id can only be written
\* afterwards by the last step of an update_character that read the row
\* before it went.
C31_DeleteAloneRemovesBoth ==
  /\ []((Ended(1) /\ calls[1].op = "delete_character" /\ calls[1].ret = Ok(TRUE)) =>
         /\ calls[1].arg.id \notin DOMAIN store_characters
         /\ calls[1].arg.id \notin DOMAIN character_cache)
  /\ [][\A id \in DOMAIN character_cache' :
          (id \notin DOMAIN store_characters /\ id \notin DOMAIN character_cache) =>
            \E s \in Slots : At(s, "update_character", "uc_cache") /\ calls[s].arg.id = id]_vars

\* Both have returned, the row is gone and the cache holds the character.
C31_Witness ==
  /\ DeleteAndUpdateEnded
  /\ calls[1].ret = Ok(TRUE)
  /\ calls[2].ret.kind = "ok"
  /\ Robot001 \notin DOMAIN store_characters
  /\ Robot001 \in DOMAIN character_cache

\* ------------------------------- a voice deletion overlapping a lookup
VgCallStep(s) ==
  \/ s = 1 /\ Call_clear_voice_cache(s)
  \/ s = 1 /\ Call_delete_voice(s, "aria")
  \/ s = 1 /\ \E data \in VoiceCreates : Call_create_voice(s, data)
  \/ s = 2 /\ Call_get_voice(s, "aria")

VgCoroutineStep(s) ==
  \/ Dv_get(s) \/ Dv_fill(s) \/ Dv_commit(s) \/ Dv_cache(s)
  \/ Cv_insert(s) \/ Cv_cache(s)
  \/ Gv_select(s) \/ Gv_fill(s)

VgNext == \E s \in Slots : VgCallStep(s) \/ VgCoroutineStep(s)

\* On a warmed director one caller clears the voice cache, deletes voice
\* aria and creates it again, while another looks the voice up.
SpecVoiceGhost == InitWarmed(NoCharacters, SeedVoices) /\ [][VgNext]_vars

\* C32 as stated: once a delete_voice and a get_voice of one voice have both
\* ended, the voice cache has no entry for the voice if the store has no row
\* for it; and a create_voice of a name the store lacks, run with nothing
\* else meanwhile, is not rejected.
C32_DeletedVoiceStaysOut ==
  /\ (/\ calls[1].op = "delete_voice" /\ calls[1].pc = "done"
      /\ calls[2].op = "get_voice" /\ calls[2].pc = "done"
      /\ calls[1].arg.voice_name = calls[2].arg.voice_name) =>
        (calls[1].arg.voice_name \notin DOMAIN store_voices =>
           calls[1].arg.voice_name \notin DOMAIN voice_cache)
  /\ \A s \in Slots :
       (/\ Ended(s) /\ calls[s].op = "create_voice"
        /\ StripStr(calls[s].arg.voice) \notin (DOMAIN calls[s].pre.sv) \cup {""}) =>
          calls[s].ret.kind = "ok"

\* What holds: a delete_voice that has returned with nothing else having run
\* meanwhile has left neither the row nor a cached entry; an entry for a
\* voice the store lacks can only be written by the last step of a get_voice
\* that read the row before it went; and a create_voice is rejected for a
\* name the store lacks only when the warmed cache holds an entry for it.
C32_DeleteVoiceAloneRemovesBoth ==
  /\ []((Ended(1) /\ calls[1].op = "delete_voice" /\ calls[1].ret = Ok(TRUE)) =>
         /\ calls[1].arg.voice_name \notin DOMAIN store_voices
         /\ calls[1].arg.voice_name \notin DOMAIN voice_cache)
  /\ [][\A v \in DOMAIN voice_cache' :
          (v \notin DOMAIN store_voices /\ v \notin DOMAIN voice_cache) =>
            \E s \in Slots : At(s, "get_voice", "gv_fill") /\ calls[s].arg.voice_name = v]_vars
  /\ [](\A s \in Slots :
          (/\ Ended(s) /\ calls[s].op = "create_voice" /\ calls[s].ret.kind = "err"
           /\ StripStr(calls[s].arg.voice) \notin (DOMAIN calls[s].pre.sv) \cup {""}) =>
             /\ calls[s].pre.loaded
             /\ StripStr(calls[s].arg.voice) \in DOMAIN calls[s].pre.vc)

\* The voice was deleted while a lookup was under way, the lookup has cached
\* it, and a create_voice of the name has been rejected.
C32_Witness ==
  /\ Ended(1) /\ calls[1].op = "create_voice" /\ calls[1].ret.kind = "err"
  /\ StripStr(calls[1].arg.voice) = "aria"
  /\ "aria" \notin DOMAIN calls[1].pre.sv
  /\ "aria" \in DOMAIN voice_cache
  /\ calls[2].op = "get_voice" /\ calls[2].pc = "done" /\ calls[2].ret.kind = "ok"

\* ------------------------------------------- active_characters of a conversation
\* The state after construction over a database that holds conversation c1
\* with the given active_characters and nothing else.
InitConversation(active_characters) ==
  /\ store_characters = NoCharacters
  /\ store_voices = NoVoices
  /\ store_conversations =
       [c \in {"c1"} |->
          NewConversationRow(c, [title |-> "T", active_characters |-> active_characters], 0)]
  /\ store_messages = EmptyMap
  /\ character_cache = EmptyMap
  /\ voice_cache = EmptyMap
  /\ cache_loaded = FALSE
  /\ clock = 1
  /\ next_uuid = 0
  /\ calls = [s \in Slots |-> IdleCall]
  /\ bg = <<>>

\* The ids in the stored active_characters of conversation c1, in order.
Roster ==
  LET a == RowToConversation(store_conversations["c1"]).active_characters
  IN [k \in DOMAIN a |-> a[k].id]

RsCallStep(s) ==
  \/ s = 1 /\ Call_add_character_to_conversation(s, "c1", [id |-> "k1"])
  \/ s = 2 /\ Call_add_character_to_conversation(s, "c1", [id |-> "k2"])
  \/ s = 2 /\ Call_remove_character_from_conversation(s, "c1", "k3")

RsCoroutineStep(s) == Acc_get(s) \/ Rcc_get(s) \/ Ucv_update(s) \/ Ucv_get(s)

RsNext == \E s \in Slots : RsCallStep(s) \/ RsCoroutineStep(s)

\* Over a conversation with character k3 active, one caller adds k1 while
\* another adds k2 or removes k3.
SpecRoster == InitConversation(<<[id |-> "k3"]>>) /\ [][RsNext]_vars

\* The call in slot s has returned the conversation.
RosterCallDone(s) ==
  /\ calls[s].op \in {"add_character_to_conversation", "remove_character_from_conversation"}
  /\ calls[s].pc = "done" /\ calls[s].ret.kind = "ok"

\* The stored list shows what the call in slot s was to do.
Reflected(s) ==
  IF calls[s].op = "add_character_to_conversation"
  THEN calls[s].arg.character_data.id \in Range(Roster)
  ELSE calls[s].arg.character_id \notin Range(Roster)

\* C33 as stated: once two calls on one conversation, an add and an add or a
\* remove of another id, have both returned, the stored active_characters
\* shows both.
C33_NoLostRosterUpdate ==
  (RosterCallDone(1) /\ RosterCallDone(2)) => (Reflected(1) /\ Reflected(2))

\* What holds: as a call returns with nothing else having run meanwhile the
\* stored list shows it, and once both have returned it shows one of the
\* two at least.
C33_LastWriterReflected ==
  /\ \A s \in Slots : (RosterCallDone(s) /\ ~calls[s].ilv) => Reflected(s)
  /\ (RosterCallDone(1) /\ RosterCallDone(2)) => (Reflected(1) \/ Reflected(2))

\* Both adds have returned and the stored list lacks k1.
C33_Witness ==
  /\ RosterCallDone(1) /\ RosterCallDone(2)
  /\ calls[2].op = "add_character_to_conversation"
  /\ "k2" \in Range(Roster)
  /\ "k1" \notin Range(Roster)

\* ------------------------------------- the two cached copies of audio_tokens
TkCallStep(s) ==
  \/ \E t \in {"t1", "t2"} : TaskBudget /\ Call_update_cached_audio_tokens(s, "aria", t)
  \/ Call_get_voice(s, "aria")
  \/ Call_get_cached_audio_tokens(s, "aria")
  \/ Call_clear_voice_cache(s)

TkCoroutineStep(s) == Gv_select(s) \/ Gv_fill(s)

TkNext ==
  \/ TkCallStep(1)
  \/ TkCoroutineStep(1)
  \/ \E i \in DOMAIN bg : Pa_commit(i)

\* On a warmed director, one caller writes audio tokens through the hot
\* path, reads the voice and its cached tokens, and clears the voice cache.
SpecTokens == InitWarmed(NoCharacters, SeedVoices) /\ [][TkNext]_vars

\* C34 as stated: for every cached voice the audio_tokens of the record
\* get_voice returns are the value get_cached_audio_tokens returns: the two
\* copies in the cache entry agree, and a get_voice that has just returned
\* carries the tokens the cache entry has.
C34_TokenCopiesAgree ==
  /\ \A v \in DOMAIN voice_cache : voice_cache[v].config.audio_tokens = voice_cache[v].audio_tokens
  /\ \A s \in Slots :
       (Ended(s) /\ calls[s].op = "get_voice" /\ calls[s].ret.kind = "ok") =>
          calls[s].ret.val.audio_tokens = GetCachedAudioTokens(calls[s].arg.voice_name)

\* What holds: get_voice returns the record of the cache entry and
\* get_cached_audio_tokens its separate audio_tokens; update_cached_audio_tokens
\* writes the separate copy and leaves the record as it was, so that the two
\* agree only until the first hot-path write after the entry was loaded.
C34_RecordKeepsLoadedTokens ==
  \A s \in Slots :
    Ended(s) =>
      LET v == calls[s].arg.voice_name
      IN /\ (calls[s].op = "get_voice" /\ calls[s].ret.kind = "ok") =>
              calls[s].ret.val = voice_cache[v].config
         /\ (calls[s].op = "get_cached_audio_tokens" /\ v \in DOMAIN voice_cache) =>
              calls[s].ret.val = voice_cache[v].audio_tokens
         /\ (calls[s].op = "update_cached_audio_tokens" /\ v \in DOMAIN calls[s].pre.vc) =>
              /\ voice_cache[v].audio_tokens = calls[s].arg.audio_tokens
              /\ voice_cache[v].config = calls[s].pre.vc[v].config

\* After update_cached_audio_tokens("aria", "t1"), get_voice("aria") has
\* returned a record without the tokens while the cache entry has them.
C34_Witness ==
  \E s \in Slots :
    /\ Ended(s) /\ calls[s].op = "get_voice" /\ calls[s].ret.kind = "ok"
    /\ calls[s].ret.val.audio_tokens # "t1"
    /\ GetCachedAudioTokens("aria") = "t1"

\* ------------------------------------- update_voice over a hot-path write
UtCallStep(s) ==
  \/ s = 1 /\ \E data \in {[new_voice |-> "zed"], [method |-> "m"]} :
                Call_update_voice(s, "aria", data)
  \/ s = 2 /\ TaskBudget /\ Call_update_cached_audio_tokens(s, "aria", "t1")

UtCoroutineStep(s) ==
  Uv_get(s) \/ Uv_check(s) \/ Uv_commit(s) \/ Uv_readback(s) \/ Uv_cache(s)

UtNext ==
  \/ \E s \in Slots : UtCallStep(s) \/ UtCoroutineStep(s)
  \/ \E i \in DOMAIN bg : Pa_commit(i)

\* On a warmed director one caller renames voice aria or changes its method
\* while another writes audio tokens for it through the hot path.
SpecVoiceTokens == InitWarmed(NoCharacters, SeedVoices) /\ [][UtNext]_vars

\* The hot-path write in slot 2 found the voice cached, the update_voice of
\* that voice in slot 1 has returned the voice, and no task is pending.
HotWriteAndUpdateDone ==
  /\ calls[2].op = "update_cached_audio_tokens"
  /\ calls[2].arg.voice_name \in DOMAIN calls[2].pre.vc
  /\ calls[1].op = "update_voice" /\ calls[1].pc = "done" /\ calls[1].ret.kind = "ok"
  /\ calls[1].arg.voice_name = calls[2].arg.voice_name
  /\ bg = <<>>

\* The tokens written are cached and stored under the name the voice has now.
TokensKept ==
  LET n == calls[1].ret.val.voice
      t == calls[2].arg.audio_tokens
  IN /\ n \in DOMAIN voice_cache /\ voice_cache[n].audio_tokens = t
     /\ n \in DOMAIN store_voices /\ RowToVoice(store_voices[n]).audio_tokens = t

\* C35 as stated: audio tokens written through the hot path are still
\* cached and stored once an update_voice of the voice that gives no
\* audio_tokens has returned and every task has finished.
C35_UpdateVoiceKeepsTokens == HotWriteAndUpdateDone => TokensKept

\* What holds: the tokens are kept when their persist task had committed
\* before the update_voice began.
C35_KeptWhenPersistedBefore ==
  (/\ HotWriteAndUpdateDone
   /\ RowToVoice(calls[1].pre.sv[calls[1].arg.voice_name]).audio_tokens
        = calls[2].arg.audio_tokens) => TokensKept

\* The rename has returned with the persist task still to run; the task has
\* run since, and neither the cache nor the store has the tokens.
C35_Witness ==
  /\ HotWriteAndUpdateDone
  /\ calls[1].ret.val.voice = "zed"
  /\ voice_cache["zed"].audio_tokens # "t1"
  /\ RowToVoice(store_voices["zed"]).audio_tokens # "t1"

\* ---------------------------------------------------------- get_all_voices
\* get_all_voices (lines 585-604).  The list returned is modelled as the set
\* of its records.  On a warmed director the records of the cache entries
\* are returned with no await; otherwise the table is read.
Call_get_all_voices(s) ==
  /\ ~Running(s)
  /\ LET c == NewCall("get_all_voices", "gav_select", EmptyMap, EmptyMap, FALSE)
     IN IF cache_loaded
        THEN StepTo(s, [c EXCEPT !.pc = "done",
                                 !.ret = Ok({voice_cache[v].config : v \in DOMAIN voice_cache})])
        ELSE StepTo(s, c)
  /\ UNCHANGED <<stores, caches, clock, next_uuid, bg>>

\* SELECT * FROM voices; [self._row_to_voice(row) for row in rows]
Gav_select(s) ==
  /\ At(s, "get_all_voices", "gav_select")
  /\ Return(s, Ok({RowToVoice(store_voices[v]) : v \in DOMAIN store_voices}))
  /\ UNCHANGED <<stores, caches, clock, next_uuid, bg>>

\* --------------------------------------------- after clear_voice_cache
ClCallStep(s) ==
  \/ Call_clear_voice_cache(s)
  \/ Call_get_all_voices(s)
  \/ Call_get_voice(s, "aria")
  \/ Call_get_cached_audio_tokens(s, "aria")
  \/ TaskBudget /\ Call_update_cached_audio_tokens(s, "aria", "t1")

ClCoroutineStep(s) == Gav_select(s) \/ Gv_select(s) \/ Gv_fill(s)

ClNext ==
  \/ ClCallStep(1)
  \/ ClCoroutineStep(1)
  \/ \E i \in DOMAIN bg : Pa_commit(i)

\* One caller that clears the voice cache, lists and looks up the voices and
\* uses the hot path, on a director warmed or not.
SpecCleared ==
  (InitOver(NoCharacters, SeedVoices) \/ InitWarmed(NoCharacters, SeedVoices))
    /\ [][ClNext]_vars

\* C36 as stated: on a warmed director, whatever was cleared, get_all_voices
\* returns every voice of the store, and update_cached_audio_tokens of a
\* stored voice leaves its tokens to be read by get_cached_audio_tokens.
C36_ClearHidesNothing ==
  \A s \in Slots :
    (Ended(s) /\ calls[s].pre.loaded) =>
      /\ calls[s].op = "get_all_voices" =>
           {v.voice : v \in calls[s].ret.val} = DOMAIN store_voices
      /\ (/\ calls[s].op = "update_cached_audio_tokens"
          /\ calls[s].arg.voice_name \in DOMAIN store_voices) =>
            GetCachedAudioTokens(calls[s].arg.voice_name) = calls[s].arg.audio_tokens

\* What holds: on a warmed director get_all_voices returns the records the
\* voice cache holds, none after a clear_voice_cache until a get_voice has
\* cached one again; on a director not warmed it returns the voices of the
\* store; and clear_voice_cache changes nothing but the voice cache, which
\* it empties.
C36_ListIsCacheWhenWarmed ==
  \A s \in Slots :
    Ended(s) =>
      /\ calls[s].op = "get_all_voices" =>
           calls[s].ret.val =
             IF calls[s].pre.loaded
             THEN {voice_cache[v].config : v \in DOMAIN voice_cache}
             ELSE {RowToVoice(store_voices[v]) : v \in DOMAIN store_voices}
      /\ calls[s].op = "clear_voice_cache" =>
           /\ voice_cache = EmptyMap
           /\ character_cache = calls[s].pre.cc /\ cache_loaded = calls[s].pre.loaded
           /\ StoresAsBefore(s)

\* On a warmed director whose voice cache was cleared, get_all_voices has
\* returned no voice while the store holds two.
C36_Witness ==
  \E s \in Slots :
    /\ Ended(s) /\ calls[s].op = "get_all_voices" /\ calls[s].pre.loaded
    /\ calls[s].ret.val = {}
    /\ DOMAIN store_voices = {"aria", "nova"}

\* ------------------------------------------- what update_character leaves
FrameUpdates ==
  {[name |-> RobotArm], [is_active |-> TRUE], [voice |-> "nova", images |-> <<>>],
   [last_message |-> "hi"]}

FrCallStep(s) ==
  \/ \E id \in {Robot001, Robot002} : \E data \in FrameUpdates :
       Call_update_character(s, id, data)
  \/ \E data \in CharacterCreates : Call_create_character(s, data)

FrCoroutineStep(s) ==
  \/ Uc_get(s) \/ Uc_update(s) \/ Uc_readback(s) \/ Uc_cache(s)
  \/ Cc_genid(s) \/ Cc_insert(s) \/ Cc_cache(s)

FrNext == FrCallStep(1) \/ FrCoroutineStep(1)

\* One caller creating characters and updating some of their fields, on a
\* director warmed or not.
SpecUpdateFrame ==
  (InitOver(SeedCharacters, SeedVoices) \/ InitWarmed(SeedCharacters, SeedVoices))
    /\ [][FrNext]_vars

\* The fields an update can give.
UpdatableFields ==
  {"name", "voice", "system_prompt", "image_url", "images", "is_active", "last_message"}

\* C37: as update_character (set_character_active is the same call with
\* is_active alone) returns the character, with nothing else having run
\* meanwhile, the stored row and the cached record keep the id, created_at
\* and every field the update did not give; the cached record is the stored
\* row, and is what was cached before in every field not given; every other
\* character, stored or cached, every voice, conversation and message and
\* the cache-loaded flag are as before.
C37_UpdateTouchesGivenFields ==
  \A s \in Slots :
    (Ended(s) /\ calls[s].op = "update_character" /\ calls[s].ret.kind = "ok") =>
      LET id == calls[s].arg.id
          data == calls[s].arg.data
          old == calls[s].pre.sc[id]
          new == store_characters[id]
          kept == (UpdatableFields \ DOMAIN data) \cup {"id", "created_at"}
      IN /\ DOMAIN store_characters = DOMAIN calls[s].pre.sc
         /\ new.id = id
         /\ \A f \in kept : new[f] = old[f]
         /\ \A o \in (DOMAIN store_characters) \ {id} : store_characters[o] = calls[s].pre.sc[o]
         /\ character_cache[id] = RowToCharacter(new)
         /\ calls[s].ret.val = character_cache[id]
         /\ \A f \in kept : character_cache[id][f] = RowToCharacter(old)[f]
         /\ id \in DOMAIN calls[s].pre.cc =>
              \A f \in kept : character_cache[id][f] = calls[s].pre.cc[id][f]
         /\ DOMAIN character_cache = (DOMAIN calls[s].pre.cc) \cup {id}
         /\ \A o \in (DOMAIN character_cache) \ {id} : character_cache[o] = calls[s].pre.cc[o]
         /\ store_voices = calls[s].pre.sv
         /\ store_conversations = calls[s].pre.sconv
         /\ store_messages = calls[s].pre.sm
         /\ voice_cache = calls[s].pre.vc
         /\ cache_loaded = calls[s].pre.loaded

\* robot-001 has been renamed: its id is robot-001 still, its name is the
\* new one and its voice the old one.
C37_Witness ==
  \E s \in Slots :
    /\ Ended(s) /\ calls[s].op = "update_character" /\ calls[s].ret.kind = "ok"
    /\ calls[s].arg.id = Robot001
    /\ calls[s].arg.data = [name |-> RobotArm]
    /\ store_characters[Robot001].name = RobotArm
    /\ character_cache[Robot001].id = Robot001
    /\ character_cache[Robot001].voice = "aria"

\* ------------------------------------------------ adds and removes in turn
\* The ids the caller adds and removes.
RosterIds == {"k1", "k2", "k3"}

SqCallStep(s) ==
  \/ \E k \in RosterIds : Call_add_character_to_conversation(s, "c1", [id |-> k])
  \/ \E k \in RosterIds : Call_remove_character_from_conversation(s, "c1", k)

SqCoroutineStep(s) == Acc_get(s) \/ Rcc_get(s) \/ Ucv_update(s) \/ Ucv_get(s)

SqNext == SqCallStep(1) \/ SqCoroutineStep(1)

\* One caller adding and removing characters of conversation c1, one call
\* after the other; the list starts with two characters or with none.
SpecRosterSeq ==
  (InitConversation(<<[id |-> "k3"], [id |-> "k1"]>>) \/ InitConversation(<<>>))
    /\ [][SqNext]_vars

\* The ids of a list of characters, in its order.
IdsOf(active_characters) ==
  [k \in DOMAIN active_characters |-> active_characters[k].id]

NoDuplicateIds(active_characters) ==
  \A i, j \in DOMAIN active_characters :
    active_characters[i].id = active_characters[j].id => i = j

ActiveOf(sconv, conversation_id) == RowToConversation(sconv[conversation_id]).active_characters

\* C38: with one call after the other on a list without duplicate ids, the
\* stored list never holds an id twice; an add of an id in the list writes
\* nothing and returns the conversation as stored; an add of an id not in
\* the list appends it; a remove leaves the entries with another id, in
\* their order, and none with the given id.
C38_AddIdempotentRemoveFilters ==
  /\ \A c \in DOMAIN store_conversations : NoDuplicateIds(ActiveOf(store_conversations, c))
  /\ \A s \in Slots :
       (Ended(s) /\ calls[s].op = "add_character_to_conversation") =>
         LET c == calls[s].arg.conversation_id
             k == calls[s].arg.character_data.id
             before == ActiveOf(calls[s].pre.sconv, c)
         IN /\ calls[s].ret.kind = "ok"
            /\ (\E i \in DOMAIN before : before[i].id = k) =>
                 /\ StoresAsBefore(s)
                 /\ calls[s].ret.val = RowToConversation(calls[s].pre.sconv[c])
            /\ (\A i \in DOMAIN before : before[i].id # k) =>
                 /\ ActiveOf(store_conversations, c) = Append(before, calls[s].arg.character_data)
                 /\ calls[s].ret.val = RowToConversation(store_conversations[c])
  /\ \A s \in Slots :
       (Ended(s) /\ calls[s].op = "remove_character_from_conversation") =>
         LET c == calls[s].arg.conversation_id
             k == calls[s].arg.character_id
             before == ActiveOf(calls[s].pre.sconv, c)
             after == ActiveOf(store_conversations, c)
         IN /\ calls[s].ret.kind = "ok"
            /\ \A i \in DOMAIN after : after[i].id # k
            /\ after = SelectSeq(before, LAMBDA x : x.id # k)
            /\ calls[s].ret.val = RowToConversation(store_conversations[c])

\* k1 has been added to a list that holds it, after k2 was appended: the
\* stored list is k3, k1, k2 as before the call.
C38_Witness ==
  \E s \in Slots :
    /\ Ended(s) /\ calls[s].op = "add_character_to_conversation"
    /\ calls[s].arg.character_data.id = "k1"
    /\ IdsOf(ActiveOf(calls[s].pre.sconv, "c1")) = <<"k3", "k1", "k2">>
    /\ IdsOf(ActiveOf(store_conversations, "c1")) = <<"k3", "k1", "k2">>
    /\ StoresAsBefore(s)

============================================================================
